---- MODULE Spec2Model ----
(***************************************************************************)
(* A model of the EaterCpu gate-level simulator (src/src/eater/part.py):   *)
(* the Junction / VoltageSource network and the chip models evaluated on   *)
(* top of it.                                                              *)
(*                                                                         *)
(* Logic levels are Python's False / True / None; a raised exception is a  *)
(* fourth outcome of reading Junction.state.                               *)
(***************************************************************************)
EXTENDS Integers, Sequences, FiniteSets, TLC

Low      == "0"          \* False
High     == "1"          \* True
Floating == "x"          \* None
Conflict == "conflict"   \* ValueError("Conductors have different logic levels.")

Bools  == {Low, High}
Levels == {Low, High, Floating}

\* Python truthiness of a level: only True is truthy (False and None are not).
Truthy(l) == l = High

VARIABLES
    sources,     \* Junction._sources     : junction id -> set of source ids
    conductors,  \* Junction.conductors   : junction id -> set of junction ids
    value,       \* VoltageSource.value   : source id -> level
    reg_state,   \* FourBitDRegister._state      : register -> 4 levels
    last_clock,  \* _last_clock of a register or counter : chip -> level
    count,       \* BinaryCounter.count          : counter -> 0..15
    memory,      \* Ram._memory                  : ram -> [address -> byte]
    written,     \* history: ram -> [address -> byte last written or preloaded there, or -1]
    clk_sampled, \* history: the CLK level a register read at its latest clock sample
    pulses,      \* history: clock pulses counted since the part was fresh, or -1
    loaded,      \* history: the byte or address a test loaded last into an assembly, or -1
    output_value, \* Output.value                 : output unit -> integer
    op,          \* <<operation performed last, the part it was called on>>
    err          \* exception raised by the operation performed last, or "none"

netvars  == <<sources, conductors, value>>
ramvars  == <<memory, written>>
chipvars == <<reg_state, last_clock, count, memory, written, clk_sampled, pulses, loaded,
              output_value>>
vars     == <<sources, conductors, value, reg_state, last_clock, count, memory, written,
              clk_sampled, pulses, loaded, output_value, op, err>>

\* Junctions and sources are named <<owner, name, index>>.
Pin(c, n, i) == <<c, n, i>>

-----------------------------------------------------------------------------
(* Junction                                                                *)

\* The junctions a set()/clear() call on j visits: j, then recursively every
\* conductor of j.
RECURSIVE Reach(_)
Reach(j) == {j} \cup UNION {Reach(c) : c \in conductors[j]}

\* Mutant of Resolve: disagreeing levels read as low instead of raising.
ResolveNoRaise(levels) ==
    IF levels = {} THEN Floating
    ELSE IF \A l \in levels : Truthy(l) THEN High ELSE Low

\* The value Junction.state computes from its list of logic levels.
Resolve(levels) ==
    IF levels = {} THEN Floating
    ELSE LET all_1 == \A l \in levels : Truthy(l)
             all_0 == ~ \E l \in levels : Truthy(l)
         IN  IF ~(all_1 \/ all_0) THEN Conflict
             ELSE IF all_1 THEN High ELSE Low

\* Junction.state of junction j when the sources are src and the source
\* values are val.  An exception raised by a conductor's state propagates.
RECURSIVE StateIn(_, _, _)
StateIn(src, val, j) ==
    LET kids == {StateIn(src, val, c) : c \in conductors[j]}
    IN  IF Conflict \in kids THEN Conflict
        ELSE Resolve({val[s] : s \in src[j]} \cup (kids \ {Floating}))

\* Junction.state in the current state.
State(j) == StateIn(sources, value, j)

\* self._sources.add(source) at every junction of ks.
AddSourceAt(src, ks, s) ==
    [k \in DOMAIN src |-> IF k \in ks THEN src[k] \cup {s} ELSE src[k]]

\* self._sources.remove(source), where present, at every junction of ks.
RemoveSourceAt(src, ks, s) ==
    [k \in DOMAIN src |-> IF k \in ks THEN src[k] \ {s} ELSE src[k]]

\* Junction.set(source) on junction j, as a function on the sources map.
SetIn(src, j, s) == AddSourceAt(src, Reach(j), s)

\* Junction.clear(source) on junction j, as a function on the sources map.
ClearIn(src, j, s) == RemoveSourceAt(src, Reach(j), s)

-----------------------------------------------------------------------------
(* A free-standing network of junctions, as built by test_conductor.py     *)

NumJunctions == 3
NumSources   == 2

JIds == {<<"test", "J", i>> : i \in 1..NumJunctions}
SIds == {<<"test", "S", i>> : i \in 1..NumSources}

\* Junction(conductors): a junction can only list junctions built before it.
\* The wirings tried: no wires, a chain, a fan-in to the last junction, and
\* every junction listing all earlier ones.
Wirings ==
    { [j \in JIds |-> {}],
      [j \in JIds |-> {c \in JIds : c[3] = j[3] - 1}],
      [j \in JIds |-> IF j[3] = NumJunctions THEN {c \in JIds : c[3] < j[3]} ELSE {}],
      [j \in JIds |-> {c \in JIds : c[3] < j[3]}] }

InitJunction ==
    /\ conductors \in Wirings
    /\ sources = [j \in JIds |-> {}]
    /\ value \in [SIds -> Bools]
    /\ reg_state = <<>> /\ last_clock = <<>> /\ count = <<>> /\ clk_sampled = <<>>
    /\ memory = <<>> /\ written = <<>>
    /\ pulses = -1 /\ loaded = -1 /\ output_value = <<>>
    /\ op = <<"init", "test">>
    /\ err = "none"

JunctionSet(j, s) ==
    /\ sources' = SetIn(sources, j, s)
    /\ op' = <<"set", "test">>
    /\ err' = "none"
    /\ UNCHANGED chipvars
    /\ UNCHANGED <<conductors, value>>

JunctionClear(j, s) ==
    /\ sources' = ClearIn(sources, j, s)
    /\ op' = <<"clear", "test">>
    /\ err' = "none"
    /\ UNCHANGED chipvars
    /\ UNCHANGED <<conductors, value>>

VoltageSourceAssign(s, v) ==
    /\ value' = [value EXCEPT ![s] = v]
    /\ op' = <<"assign", "test">>
    /\ err' = "none"
    /\ UNCHANGED chipvars
    /\ UNCHANGED <<sources, conductors>>

\* Mutant of ReadSources: reading the state detaches the junction's sources.
ReadSourcesDetaching(src, j) == [src EXCEPT ![j] = {}]

\* The sources map after the state property of junction j has been read: the
\* property builds a list and returns, it assigns to no attribute.
ReadSources(src, j) == src

\* _ = j.state: the level read (or the ValueError raised) is kept in op.
JunctionRead(j) ==
    /\ sources' = ReadSources(sources, j)
    /\ op' = <<"state", j, State(j)>>
    /\ err' = IF State(j) = Conflict THEN "ValueError" ELSE "none"
    /\ UNCHANGED chipvars
    /\ UNCHANGED <<conductors, value>>

NextJunction ==
    \/ \E j \in JIds, s \in SIds : JunctionSet(j, s)
    \/ \E j \in JIds, s \in SIds : JunctionClear(j, s)
    \/ \E s \in SIds, v \in Bools : VoltageSourceAssign(s, v)
    \/ \E j \in JIds : JunctionRead(j)

SpecJunction == InitJunction /\ [][NextJunction]_vars

\* The levels a junction collects: its own sources' values and the states of
\* its conductors that are not floating.
Collected(j) ==
    {value[s] : s \in sources[j]} \cup ({State(c) : c \in conductors[j]} \ {Floating})

\* C2: Junction.state is floating when the junction has no source and every
\* conductor is floating, the common level when all sources and non-floating
\* conductors agree, and a conflict error when two of them differ.
C2_JunctionState ==
    \A j \in JIds :
        /\ (sources[j] = {} /\ \A c \in conductors[j] : State(c) = Floating)
              => State(j) = Floating
        /\ \A l \in Bools : (Collected(j) = {l}) => State(j) = l
        /\ (Low \in Collected(j) /\ High \in Collected(j)) => State(j) = Conflict

C2_Witness ==
    \E j, k \in JIds :
        /\ j # k
        /\ conductors[j] # {} /\ sources[j] # {}
        /\ Collected(j) = {High} /\ State(j) = High
        /\ State(k) = Conflict

-----------------------------------------------------------------------------
(* Two junctions wired after construction, as in test_conductor_sets_values *)

WireIds == {<<"wire", "input_wire", 0>>, <<"wire", "output_wire", 0>>}

InitWire ==
    /\ conductors = [j \in WireIds |-> {}]
    /\ sources = [j \in WireIds |-> {}]
    /\ value \in [SIds -> Bools]
    /\ reg_state = <<>> /\ last_clock = <<>> /\ count = <<>> /\ clk_sampled = <<>>
    /\ memory = <<>> /\ written = <<>>
    /\ pulses = -1 /\ loaded = -1 /\ output_value = <<>>
    /\ op = <<"init", "wire">>
    /\ err = "none"

\* a.conductors.append(b).  A junction that already reaches a is not
\* appended: its state property would never return.
WireAppend(a, b) ==
    /\ a \notin Reach(b)
    /\ b \notin conductors[a]
    /\ conductors' = [conductors EXCEPT ![a] = @ \cup {b}]
    /\ op' = <<"append", "wire">>
    /\ err' = "none"
    /\ UNCHANGED chipvars
    /\ UNCHANGED <<sources, value>>

NextWire ==
    \/ \E j \in WireIds, s \in SIds : JunctionSet(j, s)
    \/ \E j \in WireIds, s \in SIds : JunctionClear(j, s)
    \/ \E s \in SIds, v \in Bools : VoltageSourceAssign(s, v)
    \/ \E a, b \in WireIds : WireAppend(a, b)

SpecWire == InitWire /\ [][NextWire]_vars

\* C26: once junction b is listed in a.conductors, a and b resolve to the
\* same level after every later set, clear or source value change on either
\* of them, also when the source was attached before the wiring was made.
C26_WiredJunctionsAgree ==
    [][ \A a, b \in WireIds :
            (b \in conductors[a])
                => StateIn(sources', value', a) = StateIn(sources', value', b) ]_vars

-----------------------------------------------------------------------------
(* Two junctions wired in any way, each other and themselves included, and *)
(* the calls of state, set and clear followed frame by frame.  A call in   *)
(* progress is op = <<method, junction, source, stack>>: a frame of the     *)
(* stack is the junction the method runs on and the conductors it has       *)
(* already called.  The interpreter raises RecursionError when the stack    *)
(* would grow past its limit, and nothing runs after that.                  *)

RecursionLimit == 3
CycleIds == {<<"cycle", "a", 0>>, <<"cycle", "b", 0>>}
CycleSources == {<<"cycle", "S", 1>>, <<"cycle", "S", 2>>}

CycleStack == op[4]
CycleTop == CycleStack[Len(CycleStack)]
CycleCalling == Len(CycleStack) > 0

InitCycle ==
    /\ conductors = [j \in CycleIds |-> {}]
    /\ sources = [j \in CycleIds |-> {}]
    /\ value = [s \in CycleSources |-> IF s[3] = 1 THEN Low ELSE High]
    /\ reg_state = <<>> /\ last_clock = <<>> /\ count = <<>> /\ clk_sampled = <<>>
    /\ memory = <<>> /\ written = <<>>
    /\ pulses = -1 /\ loaded = -1 /\ output_value = <<>>
    /\ op = <<"init", "cycle", "-", <<>>>>
    /\ err = "none"

\* a.conductors.append(b), between calls.
CycleAppend(a, b) ==
    /\ ~CycleCalling /\ err # "RecursionError"
    /\ b \notin conductors[a]
    /\ conductors' = [conductors EXCEPT ![a] = @ \cup {b}]
    /\ op' = <<"append", "cycle", "-", <<>>>>
    /\ err' = "none"
    /\ UNCHANGED chipvars
    /\ UNCHANGED <<sources, value>>

\* What the body of the method does to the junction k it runs on, before
\* it calls the conductors: set adds the source, clear removes it, state
\* reads.
CycleBody(method, k, s) ==
    CASE method = "set" -> [sources EXCEPT ![k] = @ \cup {s}]
      [] method = "clear" -> [sources EXCEPT ![k] = @ \ {s}]
      [] OTHER -> sources

\* j.state, j.set(s) or j.clear(s) is called.
CycleCall(method, j, s) ==
    /\ ~CycleCalling /\ err # "RecursionError"
    /\ sources' = CycleBody(method, j, s)
    /\ op' = <<method, j, s, <<<<j, {}>>>>>>
    /\ err' = "none"
    /\ UNCHANGED chipvars
    /\ UNCHANGED <<conductors, value>>

\* The running frame calls the method on a conductor it has not called yet.
CycleDescend ==
    /\ CycleCalling /\ Len(CycleStack) < RecursionLimit
    /\ \E c \in conductors[CycleTop[1]] \ CycleTop[2] :
          /\ sources' = CycleBody(op[1], c, op[3])
          /\ op' = [op EXCEPT ![4] = Append(@, <<c, {}>>)]
    /\ UNCHANGED chipvars
    /\ UNCHANGED <<conductors, value, err>>

\* The same call with the stack at its limit.
CycleOverflow ==
    /\ CycleCalling /\ Len(CycleStack) = RecursionLimit
    /\ conductors[CycleTop[1]] \ CycleTop[2] # {}
    /\ op' = [op EXCEPT ![4] = <<>>]
    /\ err' = "RecursionError"
    /\ UNCHANGED chipvars
    /\ UNCHANGED <<sources, conductors, value>>

\* The running frame has called every conductor and returns; the outermost
\* frame of state returns the level or raises the conflict.
CycleReturn ==
    /\ CycleCalling
    /\ CycleTop[2] = conductors[CycleTop[1]]
    /\ IF Len(CycleStack) = 1
       THEN /\ op' = [op EXCEPT ![4] = <<>>]
            /\ err' = IF op[1] = "state" /\ StateIn(sources, value, op[2]) = Conflict
                      THEN "ValueError" ELSE "none"
       ELSE /\ op' = [op EXCEPT ![4] =
                        [SubSeq(@, 1, Len(@) - 1) EXCEPT ![Len(@) - 1][2] =
                            @ \cup {CycleTop[1]}]]
            /\ err' = err
    /\ UNCHANGED chipvars
    /\ UNCHANGED <<sources, conductors, value>>

CycleStep == CycleDescend \/ CycleOverflow \/ CycleReturn

NextCycle ==
    \/ \E a, b \in CycleIds : CycleAppend(a, b)
    \/ \E j \in CycleIds, s \in CycleSources :
          \E method \in {"state", "set", "clear"} : CycleCall(method, j, s)
    \/ CycleDescend
    \/ CycleOverflow
    \/ CycleReturn

\* A call once made is run until it returns or raises.
SpecCycle == InitCycle /\ [][NextCycle]_vars /\ WF_vars(CycleStep)

\* C38: every call of state, set or clear on a junction ends with a result,
\* a level or the conflict error, whatever the wiring is.
C38_JunctionCallsReturn ==
    CycleCalling ~> (~CycleCalling /\ err \in {"none", "ValueError"})

-----------------------------------------------------------------------------
(* Sources a test attaches to a pin, Bus, PoweredPart                       *)

\* The VoltageSource a test creates for pin p.
Ext(p) == <<"ext." \o p[1], p[2], p[3]>>

\* pin.set(VoltageSource(l)) / vs.value = l by a test; l = Floating leaves
\* the pin without a source.
DriveIn(net, p, l) ==
    IF l = Floating
    THEN [src |-> ClearIn(net.src, p, Ext(p)), val |-> [net.val EXCEPT ![Ext(p)] = Low]]
    ELSE [src |-> SetIn(net.src, p, Ext(p)), val |-> [net.val EXCEPT ![Ext(p)] = l]]

\* Bus.conductors[i] and Bus.voltage_sources[i] (i from 1).
BusLine(b, i) == <<b, "line", i>>
BusVs(b, i)   == <<b, "vs", i>>

\* Mutant of PullToIn: a None position leaves the line as it was.
RECURSIVE PullToInSkipsNone(_, _, _, _, _)
PullToInSkipsNone(net, b, v, i, n) ==
    IF i > n THEN net
    ELSE PullToInSkipsNone(
            IF v[i] = Floating
            THEN net
            ELSE [src |-> SetIn(net.src, BusLine(b, i), BusVs(b, i)),
                  val |-> [net.val EXCEPT ![BusVs(b, i)] = v[i]]],
            b, v, i + 1, n)

\* Bus.pull_to(v), lines 1..n in order.
RECURSIVE PullToIn(_, _, _, _, _)
PullToIn(net, b, v, i, n) ==
    IF i > n THEN net
    ELSE PullToIn(
            IF v[i] = Floating
            THEN [net EXCEPT !.src = ClearIn(net.src, BusLine(b, i), BusVs(b, i))]
            ELSE [src |-> SetIn(net.src, BusLine(b, i), BusVs(b, i)),
                  val |-> [net.val EXCEPT ![BusVs(b, i)] = v[i]]],
            b, v, i + 1, n)

\* Bus.value
BusValue(b, n) == [i \in 1..n |-> State(BusLine(b, i))]

VCC(c) == Pin(c, "VCC", 0)
GND(c) == Pin(c, "GND", 0)

\* PoweredPart.evaluate: the exception it raises, or "none".
PowerErr(src, val, c) ==
    LET vcc == StateIn(src, val, VCC(c))
    IN  IF vcc = Conflict THEN "ValueError"
        ELSE IF ~Truthy(vcc) THEN "AssertionError"
        ELSE LET gnd == StateIn(src, val, GND(c))
             IN  IF gnd = Conflict THEN "ValueError"
                 ELSE IF Truthy(gnd) THEN "AssertionError"
                 ELSE "none"

\* The sources map after pin.clear(vs) for every <<pin, vs>> of pairs.
ClearAllIn(src, pairs) ==
    LET visits == {<<Reach(q[1]), q[2]>> : q \in pairs}
    IN  [k \in DOMAIN src |-> src[k] \ {v[2] : v \in {x \in visits : k \in x[1]}}]

\* vs.value = bits[i]; pin.set(vs) for the pins and sources i..Len(pins).
RECURSIVE SetAllIn(_, _, _, _, _)
SetAllIn(net, pins, vss, bits, i) ==
    IF i > Len(pins) THEN net
    ELSE SetAllIn([src |-> SetIn(net.src, pins[i], vss[i]),
                   val |-> [net.val EXCEPT ![vss[i]] = bits[i]]],
                  pins, vss, bits, i + 1)

-----------------------------------------------------------------------------
(* A bus on its own: Bus([Junction() for _ in range(BusLen)])              *)

BusLen == 4

InitBus ==
    /\ sources = [j \in {BusLine("bus", i) : i \in 1..BusLen} |-> {}]
    /\ conductors = [j \in {BusLine("bus", i) : i \in 1..BusLen} |-> {}]
    /\ value = [s \in {BusVs("bus", i) : i \in 1..BusLen} |-> Low]
    /\ reg_state = <<>> /\ last_clock = <<>> /\ count = <<>> /\ clk_sampled = <<>>
    /\ memory = <<>> /\ written = <<>>
    /\ pulses = -1 /\ loaded = -1 /\ output_value = <<>>
    /\ op = <<"init", "bus">>
    /\ err = "none"

\* bus.pull_to(v) with a list of the bus's full length; op keeps the list.
BusPullTo(v) ==
    \E r \in {PullToIn([src |-> sources, val |-> value], "bus", v, 1, BusLen)} :
        /\ sources' = r.src
        /\ value' = r.val
        /\ op' = <<"pull_to", v>>
        /\ err' = "none"
        /\ UNCHANGED <<conductors, chipvars>>

NextBus ==
    \E v \in [1..BusLen -> Levels] : BusPullTo(v)

SpecBus == InitBus /\ [][NextBus]_vars

\* C25: after pull_to(bits) with concrete bits at every position of the
\* bus, value reads the same bits; after pull_to with None at every
\* position, value reads floating at every position.
C25_BusRoundTrip ==
    (op[1] = "pull_to" /\ op[2] \in [1..BusLen -> Bools] \cup {[i \in 1..BusLen |-> Floating]})
        => BusValue("bus", BusLen) = op[2]

\* Every line reads floating although its source still holds the high level
\* of an earlier pull_to.
C25_Witness ==
    /\ op = <<"pull_to", [i \in 1..BusLen |-> Floating]>>
    /\ \A i \in 1..BusLen : value[BusVs("bus", i)] = High
    /\ BusValue("bus", BusLen) = [i \in 1..BusLen |-> Floating]

-----------------------------------------------------------------------------
(* OctalBusTransceiver                                                     *)

\* Lines of the transceiver that are modelled (the 74LS245 has 8).
NumLines == 1

TrA(c, i)   == Pin(c, "A", i)
TrB(c, i)   == Pin(c, "B", i)
TrAVs(c, i) == <<c, "a", i>>
TrBVs(c, i) == <<c, "b", i>>
DirectionPin(c) == Pin(c, "DIRECTION", 0)
EnabledPin(c)   == Pin(c, "ENABLED", 0)

\* Lines of chip c: the transceiver tested on its own is cut down to
\* NumLines, the ones wired into the assemblies have all 8.
TransLinesOf(c) == IF c = "trans" THEN NumLines ELSE 8

TransPins(c)    == {VCC(c), GND(c), DirectionPin(c), EnabledPin(c)}
                     \cup {TrA(c, i) : i \in 1..TransLinesOf(c)} \cup {TrB(c, i) : i \in 1..TransLinesOf(c)}
TransSources(c) == {TrAVs(c, i) : i \in 1..TransLinesOf(c)} \cup {TrBVs(c, i) : i \in 1..TransLinesOf(c)}

\* self.a + self.b
TransAB(c) == {<<TrA(c, i), TrAVs(c, i)>> : i \in 1..TransLinesOf(c)}
                \cup {<<TrB(c, i), TrBVs(c, i)>> : i \in 1..TransLinesOf(c)}

\* The copy loop of evaluate from line i on; d is the direction level.  A
\* conflict on an input pin raises and leaves the earlier lines written.
RECURSIVE TransCopy(_, _, _, _)
TransCopy(net, c, d, i) ==
    IF i > TransLinesOf(c) THEN net
    ELSE LET in_pin  == IF Truthy(d) THEN TrA(c, i) ELSE TrB(c, i)
             out_pin == IF Truthy(d) THEN TrB(c, i) ELSE TrA(c, i)
             out_vs  == IF Truthy(d) THEN TrBVs(c, i) ELSE TrAVs(c, i)
             lvl     == StateIn(net.src, net.val, in_pin)
         IN  IF lvl = Conflict THEN [net EXCEPT !.err = "ValueError"]
             ELSE TransCopy([src |-> SetIn(net.src, out_pin, out_vs),
                             val |-> [net.val EXCEPT ![out_vs] = lvl],
                             err |-> "none"], c, d, i + 1)

\* Mutant of TransEvaluateIn: a disabled chip releases port B only.
TransEvaluateKeepsA(src, val, c) ==
    LET pw == PowerErr(src, val, c)
        en == StateIn(src, val, EnabledPin(c))
        d  == StateIn(src, val, DirectionPin(c))
        same == [src |-> src, val |-> val, err |-> "none"]
    IN  IF pw # "none" THEN [same EXCEPT !.err = pw]
        ELSE IF en = Conflict THEN [same EXCEPT !.err = "ValueError"]
        ELSE IF Truthy(en)
             THEN [same EXCEPT !.src = ClearAllIn(src, {q \in TransAB(c) : q[1][2] = "B"})]
        ELSE IF d \in {Conflict, Floating} THEN [same EXCEPT !.err = "ValueError"]
        ELSE TransCopy(same, c, d, 1)

\* Mutant of TransEvaluateIn: a floating DIRECTION is read as low.
TransEvaluateFloatingDirection(src, val, c) ==
    LET pw == PowerErr(src, val, c)
        en == StateIn(src, val, EnabledPin(c))
        d  == StateIn(src, val, DirectionPin(c))
        same == [src |-> src, val |-> val, err |-> "none"]
    IN  IF pw # "none" THEN [same EXCEPT !.err = pw]
        ELSE IF en = Conflict THEN [same EXCEPT !.err = "ValueError"]
        ELSE IF Truthy(en) THEN [same EXCEPT !.src = ClearAllIn(src, TransAB(c))]
        ELSE IF d = Conflict THEN [same EXCEPT !.err = "ValueError"]
        ELSE TransCopy(same, c, d, 1)

\* OctalBusTransceiver.evaluate: the network and the exception it leaves.
TransEvaluateIn(src, val, c) ==
    LET pw == PowerErr(src, val, c)
        en == StateIn(src, val, EnabledPin(c))
        d  == StateIn(src, val, DirectionPin(c))
        same == [src |-> src, val |-> val, err |-> "none"]
    IN  IF pw # "none" THEN [same EXCEPT !.err = pw]
        ELSE IF en = Conflict THEN [same EXCEPT !.err = "ValueError"]
        ELSE IF Truthy(en) THEN [same EXCEPT !.src = ClearAllIn(src, TransAB(c))]
        ELSE IF d \in {Conflict, Floating} THEN [same EXCEPT !.err = "ValueError"]
        ELSE TransCopy(same, c, d, 1)

TransEvaluate(c) ==
    \E r \in {TransEvaluateIn(sources, value, c)} :
        /\ sources' = r.src
        /\ value' = r.val
        /\ op' = <<"evaluate", c>>
        /\ err' = r.err
        /\ UNCHANGED <<conductors, chipvars>>

-----------------------------------------------------------------------------
(* The transceiver between two buses (fixture octal_bus_chip)              *)

TransBusPins == {EnabledPin("trans"), DirectionPin("trans")}
TransBuses   == {"bus_a", "bus_b"}
TransLines   == {BusLine(b, i) : b \in TransBuses, i \in 1..NumLines}

InitTrans ==
    /\ sources = [j \in TransPins("trans") \cup TransLines |->
                    IF j \in {VCC("trans"), GND("trans")} THEN {Ext(j)} ELSE {}]
    /\ conductors = [j \in TransPins("trans") \cup TransLines |->
                    IF j[2] = "A" THEN {BusLine("bus_a", j[3])}
                    ELSE IF j[2] = "B" THEN {BusLine("bus_b", j[3])}
                    ELSE {}]
    /\ value = [s \in TransSources("trans")
                      \cup {BusVs(b, i) : b \in TransBuses, i \in 1..NumLines}
                      \cup {Ext(j) : j \in TransBusPins \cup {VCC("trans"), GND("trans")}}
                 |-> IF s = Ext(VCC("trans")) THEN High ELSE Low]
    /\ reg_state = <<>> /\ last_clock = <<>> /\ count = <<>> /\ clk_sampled = <<>>
    /\ memory = <<>> /\ written = <<>>
    /\ pulses = -1 /\ loaded = -1 /\ output_value = <<>>
    /\ op = <<"init", "trans">>
    /\ err = "none"

\* A test drives ENABLED or DIRECTION, or leaves it unconnected.
TransDrive(p, l) ==
    \E r \in {DriveIn([src |-> sources, val |-> value], p, l)} :
        /\ sources' = r.src
        /\ value' = r.val
        /\ op' = <<"drive", "trans">>
        /\ err' = "none"
        /\ UNCHANGED <<conductors, chipvars>>

\* The values the tests pull a bus of n lines to: every line low, every line
\* high, every line released, and alternating high and low lines.
PullValues(n) ==
    {[i \in 1..n |-> l] : l \in Levels}
        \cup {[i \in 1..n |-> IF i % 2 = 1 THEN High ELSE Low]}

\* bus.pull_to(v)
TransPullTo(b, v) ==
    \E r \in {PullToIn([src |-> sources, val |-> value], b, v, 1, NumLines)} :
        /\ sources' = r.src
        /\ value' = r.val
        /\ op' = <<"pull_to", b>>
        /\ err' = "none"
        /\ UNCHANGED <<conductors, chipvars>>

NextTrans ==
    \/ \E p \in TransBusPins, l \in Levels : TransDrive(p, l)
    \/ \E b \in TransBuses, v \in PullValues(NumLines) : TransPullTo(b, v)
    \/ TransEvaluate("trans")

SpecTrans == InitTrans /\ [][NextTrans]_vars

\* The level a bus line has when only its own pull_to source can drive it.
ForcedLevel(b, i) ==
    IF BusVs(b, i) \in sources[BusLine(b, i)] THEN value[BusVs(b, i)] ELSE Floating

\* C3: after an evaluate with ENABLED high the chip has none of its drivers on
\* any junction, so every bus line reads what its own bus forces on it
\* (floating when nothing does), whatever the other bus carries.
C3_DisabledReleasesBothPorts ==
    (op = <<"evaluate", "trans">> /\ State(EnabledPin("trans")) = High)
        => /\ err = "none"
           /\ \A j \in DOMAIN sources : sources[j] \cap TransSources("trans") = {}
           /\ \A b \in TransBuses, i \in 1..NumLines :
                 State(BusLine(b, i)) = ForcedLevel(b, i)
           /\ \A i \in 1..NumLines :
                 /\ State(TrA("trans", i)) = ForcedLevel("bus_a", i)
                 /\ State(TrB("trans", i)) = ForcedLevel("bus_b", i)

\* A disabled evaluate after an enabled one had copied a high level to port B,
\* with bus A still forced high and bus B left alone.
C3_Witness ==
    /\ op = <<"evaluate", "trans">>
    /\ State(EnabledPin("trans")) = High
    /\ value[TrBVs("trans", 1)] = High
    /\ State(BusLine("bus_a", 1)) = High
    /\ State(BusLine("bus_b", 1)) = Floating

\* C4: after an evaluate with ENABLED low and DIRECTION driven, every output
\* pin reads the level of its input pin, for low, high and floating inputs
\* (the output bus is not forced by a test).
C4_OutputEqualsInput ==
    (/\ op = <<"evaluate", "trans">>
     /\ err = "none"
     /\ State(EnabledPin("trans")) = Low
     /\ State(DirectionPin("trans")) \in Bools)
        => LET d == State(DirectionPin("trans"))
           IN  \A i \in 1..NumLines :
                 LET in_pin  == IF Truthy(d) THEN TrA("trans", i) ELSE TrB("trans", i)
                     out_pin == IF Truthy(d) THEN TrB("trans", i) ELSE TrA("trans", i)
                     out_bus == IF Truthy(d) THEN "bus_b" ELSE "bus_a"
                 IN  ForcedLevel(out_bus, i) = Floating
                        => State(out_pin) = State(in_pin)

\* C29: evaluate of a powered transceiver whose ENABLED pin does not read
\* high and whose DIRECTION pin is floating fails with an error, and that
\* evaluate leaves every port driver of the chip as it was.
C29_FloatingDirectionFails ==
    [][ (/\ op' = <<"evaluate", "trans">>
         /\ PowerErr(sources, value, "trans") = "none"
         /\ State(EnabledPin("trans")) \in {Low, Floating}
         /\ State(DirectionPin("trans")) = Floating)
            => (/\ err' # "none"
                /\ \A q \in TransAB("trans") :
                      /\ (q[2] \in sources'[q[1]]) = (q[2] \in sources[q[1]])
                      /\ value'[q[2]] = value[q[2]]) ]_vars

\* The failed evaluate, with port A still driven by an earlier evaluate.
C29_Witness ==
    /\ op = <<"evaluate", "trans">>
    /\ err = "ValueError"
    /\ State(EnabledPin("trans")) = Low
    /\ State(DirectionPin("trans")) = Floating
    /\ TrAVs("trans", 1) \in sources[TrA("trans", 1)]
    /\ value[TrAVs("trans", 1)] = High

-----------------------------------------------------------------------------
(* FourBitDRegister                                                        *)

RegM(c)     == Pin(c, "M", 0)
RegN(c)     == Pin(c, "N", 0)
RegCLK(c)   == Pin(c, "CLK", 0)
RegCLR(c)   == Pin(c, "CLR", 0)
RegG1(c)    == Pin(c, "G1", 0)
RegG2(c)    == Pin(c, "G2", 0)
RegD(c)     == [i \in 1..4 |-> Pin(c, "D", i)]
RegQ(c)     == [i \in 1..4 |-> Pin(c, "Q", i)]
RegQVs(c)   == [i \in 1..4 |-> <<c, "q_vs", i>>]

RegControls(c) == {RegM(c), RegN(c), RegCLK(c), RegCLR(c), RegG1(c), RegG2(c)}
RegPins(c) == {VCC(c), GND(c)} \cup RegControls(c)
                \cup {RegD(c)[i] : i \in 1..4} \cup {RegQ(c)[i] : i \in 1..4}

\* self.lines as <<out_pin, vs>> pairs
RegOutputs(c) == {<<RegQ(c)[i], RegQVs(c)[i]>> : i \in 1..4}

\* Mutant of RegClearOrLatch: the data-enable pins are tested before CLR.
RegClearAfterEnable(src, val, st, lc, c) ==
    LET same == [src |-> src, val |-> val, st |-> st, lc |-> lc,
                 err |-> "none", sampled |-> "no"]
        clr  == StateIn(src, val, RegCLR(c))
        g1   == StateIn(src, val, RegG1(c))
        g2   == StateIn(src, val, RegG2(c))
        clock == StateIn(src, val, RegCLK(c))
        data == [i \in 1..4 |-> StateIn(src, val, RegD(c)[i])]
        zero == [i \in 1..4 |-> Low]
        out(bits) == SetAllIn([src |-> src, val |-> val], RegQ(c), RegQVs(c), bits, 1)
    IN  IF Truthy(g1) \/ Truthy(g2) THEN same
        ELSE IF Truthy(clr)
             THEN [same EXCEPT !.src = out(zero).src, !.val = out(zero).val, !.st = zero]
        ELSE IF Truthy(clock) /\ ~Truthy(lc)
             THEN [same EXCEPT !.src = out(data).src, !.val = out(data).val,
                               !.st = data, !.lc = clock, !.sampled = clock]
        ELSE [same EXCEPT !.sampled = clock]

\* Mutant of RegClearOrLatch: the data-enable pins are not tested.
RegLatchIgnoresEnable(src, val, st, lc, c) ==
    LET same == [src |-> src, val |-> val, st |-> st, lc |-> lc,
                 err |-> "none", sampled |-> "no"]
        clr  == StateIn(src, val, RegCLR(c))
        clock == StateIn(src, val, RegCLK(c))
        data == [i \in 1..4 |-> StateIn(src, val, RegD(c)[i])]
        zero == [i \in 1..4 |-> Low]
        out(bits) == SetAllIn([src |-> src, val |-> val], RegQ(c), RegQVs(c), bits, 1)
    IN  IF Truthy(clr)
             THEN [same EXCEPT !.src = out(zero).src, !.val = out(zero).val, !.st = zero]
        ELSE IF Truthy(clock) /\ ~Truthy(lc)
             THEN [same EXCEPT !.src = out(data).src, !.val = out(data).val,
                               !.st = data, !.lc = clock, !.sampled = clock]
        ELSE [same EXCEPT !.sampled = clock]

\* FourBitDRegister.evaluate from the CLR test on; src already has the
\* outputs released when M or N was high.  sampled is the CLK level read at
\* the rising-edge test, "no" when evaluate returns before it.
RegClearOrLatch(src, val, st, lc, c) ==
    LET same == [src |-> src, val |-> val, st |-> st, lc |-> lc,
                 err |-> "none", sampled |-> "no"]
        fail == [same EXCEPT !.err = "ValueError"]
        clr  == StateIn(src, val, RegCLR(c))
        g1   == StateIn(src, val, RegG1(c))
        g2   == StateIn(src, val, RegG2(c))
        clock == StateIn(src, val, RegCLK(c))
        data == [i \in 1..4 |-> StateIn(src, val, RegD(c)[i])]
        zero == [i \in 1..4 |-> Low]
        out(bits) == SetAllIn([src |-> src, val |-> val], RegQ(c), RegQVs(c), bits, 1)
    IN  IF clr = Conflict THEN fail
        ELSE IF Truthy(clr)
             THEN [same EXCEPT !.src = out(zero).src, !.val = out(zero).val, !.st = zero]
        ELSE IF g1 = Conflict THEN fail
        ELSE IF Truthy(g1) THEN same
        ELSE IF g2 = Conflict THEN fail
        ELSE IF Truthy(g2) THEN same
        ELSE IF clock = Conflict THEN fail
        ELSE IF Truthy(clock) /\ ~Truthy(lc)
             THEN IF \E i \in 1..4 : data[i] = Conflict THEN fail
                  ELSE [same EXCEPT !.src = out(data).src, !.val = out(data).val,
                                    !.st = data, !.lc = clock, !.sampled = clock]
        ELSE [same EXCEPT !.sampled = clock]

\* FourBitDRegister.evaluate
RegEvaluateIn(src, val, st, lc, c) ==
    LET same == [src |-> src, val |-> val, st |-> st, lc |-> lc,
                 err |-> "none", sampled |-> "no"]
        pw == PowerErr(src, val, c)
        n  == StateIn(src, val, RegN(c))
        m  == StateIn(src, val, RegM(c))
    IN  IF pw # "none" THEN [same EXCEPT !.err = pw]
        ELSE IF n = Conflict \/ (~Truthy(n) /\ m = Conflict)
             THEN [same EXCEPT !.err = "ValueError"]
        ELSE IF Truthy(n) \/ Truthy(m)
             THEN RegClearOrLatch(ClearAllIn(src, RegOutputs(c)), val, st, lc, c)
        ELSE RegClearOrLatch(src, val, st, lc, c)

RegEvaluate(c) ==
    \E r \in {RegEvaluateIn(sources, value, reg_state[c], last_clock[c], c)} :
        /\ sources' = r.src
        /\ value' = r.val
        /\ reg_state' = [reg_state EXCEPT ![c] = r.st]
        /\ last_clock' = [last_clock EXCEPT ![c] = r.lc]
        /\ clk_sampled' = IF r.sampled = "no" THEN clk_sampled
                          ELSE [clk_sampled EXCEPT ![c] = r.sampled]
        /\ op' = <<"evaluate", c>>
        /\ err' = r.err
        /\ UNCHANGED <<conductors, output_value, count, ramvars, pulses, loaded>>

-----------------------------------------------------------------------------
(* A free-standing register (fixture four_bit_register): power connected,  *)
(* a test source on every control pin, the data pins not yet connected.    *)

\* The levels the tests put on D1..D4: 1111, 0000, 1010, and 100 with D1
\* left unconnected.
RegDataValues ==
    { <<High, High, High, High>>, <<Low, Low, Low, Low>>,
      <<High, Low, High, Low>>, <<Floating, High, Low, Low>> }

InitReg ==
    /\ sources = [j \in RegPins("reg") |->
                    IF j \in RegControls("reg") \cup {VCC("reg"), GND("reg")}
                    THEN {Ext(j)} ELSE {}]
    /\ conductors = [j \in RegPins("reg") |-> {}]
    /\ value = [s \in {RegQVs("reg")[i] : i \in 1..4}
                      \cup {Ext(j) : j \in RegPins("reg")}
                 |-> IF s = Ext(VCC("reg")) THEN High ELSE Low]
    /\ reg_state = [c \in {"reg"} |-> [i \in 1..4 |-> Low]]
    /\ last_clock = [c \in {"reg"} |-> Low]
    /\ clk_sampled = [c \in {"reg"} |-> Low]
    /\ count = <<>>
    /\ memory = <<>> /\ written = <<>>
    /\ pulses = -1 /\ loaded = -1 /\ output_value = <<>>
    /\ op = <<"init", "reg">>
    /\ err = "none"

\* A test changes the level of a control pin's source.
RegDrive(p, l) ==
    \E r \in {DriveIn([src |-> sources, val |-> value], p, l)} :
        /\ State(p) # l
        /\ sources' = r.src
        /\ value' = r.val
        /\ op' = <<"drive", "reg">>
        /\ err' = "none"
        /\ UNCHANGED <<conductors, chipvars>>

RECURSIVE DriveAllIn(_, _, _, _)
DriveAllIn(net, pins, v, i) ==
    IF i > Len(pins) THEN net
    ELSE DriveAllIn(DriveIn(net, pins[i], v[i]), pins, v, i + 1)

\* A test puts v on D1..D4.
RegSetData(v) ==
    \E r \in {DriveAllIn([src |-> sources, val |-> value], RegD("reg"), v, 1)} :
        /\ sources' = r.src
        /\ value' = r.val
        /\ op' = <<"data", "reg">>
        /\ err' = "none"
        /\ UNCHANGED <<conductors, chipvars>>

NextReg ==
    \/ \E p \in RegControls("reg"), l \in Bools : RegDrive(p, l)
    \/ \E v \in RegDataValues : RegSetData(v)
    \/ RegEvaluate("reg")

SpecReg == InitReg /\ [][NextReg]_vars

\* Levels on D1..D4 and Q1..Q4.
RegDLevels(c) == [i \in 1..4 |-> State(RegD(c)[i])]
RegQLevels(c) == [i \in 1..4 |-> State(RegQ(c)[i])]
RegOutputEnabled(c) == State(RegM(c)) = Low /\ State(RegN(c)) = Low
RegDataEnabled(c)   == State(RegG1(c)) = Low /\ State(RegG2(c)) = Low

\* C1: with M=N=low, CLR low and G1=G2=low, an evaluate that sees CLK high
\* after the register last sampled it low latches: afterwards the stored
\* state and Q1..Q4 equal the (driven) levels on D1..D4.
C1_LatchOnEveryRisingEdge ==
    [][ (/\ op' = <<"evaluate", "reg">>
         /\ RegOutputEnabled("reg") /\ RegDataEnabled("reg")
         /\ State(RegCLR("reg")) = Low
         /\ State(RegCLK("reg")) = High
         /\ clk_sampled["reg"] = Low
         /\ \A i \in 1..4 : RegDLevels("reg")[i] \in Bools)
        => (/\ reg_state'["reg"] = RegDLevels("reg")
            /\ RegQLevels("reg")' = RegDLevels("reg")) ]_vars

\* C6: after an evaluate with M=N=low and CLR high the stored state is 0000
\* and Q1..Q4 all read low, whatever D, CLK, G1, G2 and the earlier state are.
C6_ClearForcesZero ==
    (/\ op = <<"evaluate", "reg">>
     /\ RegOutputEnabled("reg")
     /\ State(RegCLR("reg")) = High)
        => /\ reg_state["reg"] = <<Low, Low, Low, Low>>
           /\ RegQLevels("reg") = <<Low, Low, Low, Low>>

\* A clear of a register that had latched before, with D=1111, CLK high and
\* a data-enable pin high.
C6_Witness ==
    /\ op = <<"evaluate", "reg">>
    /\ RegOutputEnabled("reg")
    /\ State(RegCLR("reg")) = High
    /\ last_clock["reg"] = High
    /\ RegDLevels("reg") = <<High, High, High, High>>
    /\ State(RegCLK("reg")) = High
    /\ State(RegG1("reg")) = High
    /\ reg_state["reg"] = <<Low, Low, Low, Low>>

\* The register sees a rising edge: CLK is high and the register last
\* sampled it low.
RegRisingEdge(c) == State(RegCLK(c)) = High /\ clk_sampled[c] = Low

\* C7: an evaluate changes the stored state only if CLR is high, or G1 and G2
\* are both low and CLK shows a rising edge; any other evaluate leaves the
\* stored state and the levels of the Q drivers unchanged (and the levels read
\* on Q1..Q4 when M=N=low).
C7_StateChangesOnlyOnClearOrLatch ==
    [][ (/\ op' = <<"evaluate", "reg">>
         /\ ~ (\/ State(RegCLR("reg")) = High
               \/ RegDataEnabled("reg") /\ RegRisingEdge("reg")))
        => (/\ reg_state' = reg_state
            /\ \A i \in 1..4 : value'[RegQVs("reg")[i]] = value[RegQVs("reg")[i]]
            /\ RegOutputEnabled("reg") => RegQLevels("reg")' = RegQLevels("reg")) ]_vars

\* An evaluate at a rising edge with a data-enable pin high and D=0000 has
\* left the latched 1111 in place.
C7_Witness ==
    /\ op = <<"evaluate", "reg">>
    /\ State(RegCLR("reg")) = Low
    /\ State(RegG1("reg")) = High \/ State(RegG2("reg")) = High
    /\ RegRisingEdge("reg")
    /\ RegDLevels("reg") = <<Low, Low, Low, Low>>
    /\ reg_state["reg"] = <<High, High, High, High>>
    /\ RegQLevels("reg") = <<High, High, High, High>>

\* C8: after an evaluate in which M or N is high, Q1..Q4 are all floating,
\* whatever CLK, CLR, G1, G2 and D are.
C8_OutputsFloatWhenDisabled ==
    (/\ op = <<"evaluate", "reg">>
     /\ State(RegM("reg")) = High \/ State(RegN("reg")) = High)
        => RegQLevels("reg") = <<Floating, Floating, Floating, Floating>>

\* The Q sources of the register are all detached.
RegReleased(c) == \A q \in RegOutputs(c) : q[2] \notin sources[q[1]]

\* C39: once a latched state has been released from Q1..Q4 by an evaluate
\* with M or N high, an evaluate with M and N low, CLR low and no rising
\* clock edge makes Q1..Q4 read the stored state again.
C39_OutputsComeBack ==
    [][ (/\ op' = <<"evaluate", "reg">> /\ err' = "none"
         /\ RegReleased("reg")
         /\ reg_state["reg"] # <<Low, Low, Low, Low>>
         /\ State(RegM("reg")) = Low /\ State(RegN("reg")) = Low
         /\ State(RegCLR("reg")) = Low
         /\ ~(State(RegCLK("reg")) = High /\ last_clock["reg"] = Low))
          => RegQLevels("reg")' = reg_state'["reg"] ]_vars

-----------------------------------------------------------------------------
(* list_to_int, int_to_list                                                *)

\* list_to_int(values): bit i-1 is set when values[i] is truthy; the sum over
\* the first n values.
RECURSIVE list_to_int_from(_, _)
list_to_int_from(values, n) ==
    IF n = 0 THEN 0
    ELSE (IF Truthy(values[n]) THEN 2 ^ (n - 1) ELSE 0) + list_to_int_from(values, n - 1)

list_to_int(values) == list_to_int_from(values, Len(values))

\* int_to_list(v, bits)
int_to_list(v, bits) ==
    [i \in 1..bits |-> IF (v \div (2 ^ (i - 1))) % 2 = 1 THEN High ELSE Low]

-----------------------------------------------------------------------------
(* BinaryCounter                                                           *)

CtrCLR(c)      == Pin(c, "CLR", 0)
CtrCLK(c)      == Pin(c, "CLK", 0)
CtrLOAD(c)     == Pin(c, "LOAD", 0)
CtrENABLE_P(c) == Pin(c, "ENABLE_P", 0)
CtrENABLE_T(c) == Pin(c, "ENABLE_T", 0)
CtrCARRY(c)    == Pin(c, "CARRY", 0)
CtrD(c)        == [i \in 1..4 |-> Pin(c, "D", i)]
CtrQ(c)        == [i \in 1..4 |-> Pin(c, "Q", i)]
CtrQVs(c)      == [i \in 1..4 |-> <<c, "q_vs", i>>]
CtrCarryVs(c)  == <<c, "carry_vs", 0>>

CtrControls(c) == {CtrCLR(c), CtrCLK(c), CtrLOAD(c), CtrENABLE_P(c), CtrENABLE_T(c)}
CtrPins(c) == {VCC(c), GND(c), CtrCARRY(c)} \cup CtrControls(c)
                \cup {CtrD(c)[i] : i \in 1..4} \cup {CtrQ(c)[i] : i \in 1..4}

\* BinaryCounter._write_count
CtrWriteCount(net, n, c) ==
    SetAllIn(net, CtrQ(c), CtrQVs(c), int_to_list(n, 4), 1)

\* BinaryCounter._set_carry, for count n and ENABLE_T level et
CtrSetCarry(net, n, et, c) ==
    [net EXCEPT !.val[CtrCarryVs(c)] = IF n = 15 /\ Truthy(et) THEN High ELSE Low]

\* Mutant of CtrEvaluateIn: the count advances whatever the enable pins are.
CtrCountsWhenDisabled(src, val, n, lc, c) ==
    LET same == [src |-> src, val |-> val, n |-> n, lc |-> lc, err |-> "none"]
        net  == [src |-> src, val |-> val]
        rest(k) == [n |-> k, lc |-> lc, err |-> "none"]
        clr  == StateIn(src, val, CtrCLR(c))
        load == StateIn(src, val, CtrLOAD(c))
        clk  == StateIn(src, val, CtrCLK(c))
        et   == StateIn(src, val, CtrENABLE_T(c))
        data == [i \in 1..4 |-> StateIn(src, val, CtrD(c)[i])]
    IN  IF ~Truthy(clr) THEN CtrWriteCount(net, 0, c) @@ rest(0)
        ELSE IF ~Truthy(load)
             THEN LET k == list_to_int(data)
                  IN  CtrSetCarry(CtrWriteCount(net, k, c), k, et, c) @@ rest(k)
        ELSE IF ~(Truthy(clk) /\ ~Truthy(lc)) THEN [same EXCEPT !.lc = clk]
        ELSE LET k == (n + 1) % 16
             IN  CtrWriteCount(CtrSetCarry(net, k, et, c), k, c) @@ rest(k)

\* Mutant of CtrEvaluateIn: LOAD is tested only after the rising-edge test.
CtrLoadOnEdgeOnly(src, val, n, lc, c) ==
    LET same == [src |-> src, val |-> val, n |-> n, lc |-> lc, err |-> "none"]
        net  == [src |-> src, val |-> val]
        rest(k) == [n |-> k, lc |-> lc, err |-> "none"]
        clr  == StateIn(src, val, CtrCLR(c))
        load == StateIn(src, val, CtrLOAD(c))
        clk  == StateIn(src, val, CtrCLK(c))
        ep   == StateIn(src, val, CtrENABLE_P(c))
        et   == StateIn(src, val, CtrENABLE_T(c))
        data == [i \in 1..4 |-> StateIn(src, val, CtrD(c)[i])]
    IN  IF ~Truthy(clr) THEN CtrWriteCount(net, 0, c) @@ rest(0)
        ELSE IF ~(Truthy(clk) /\ ~Truthy(lc)) THEN [same EXCEPT !.lc = clk]
        ELSE IF ~Truthy(load)
             THEN LET k == list_to_int(data)
                  IN  CtrSetCarry(CtrWriteCount(net, k, c), k, et, c) @@ rest(k)
        ELSE IF Truthy(ep) /\ Truthy(et)
             THEN LET k == (n + 1) % 16
                  IN  CtrWriteCount(CtrSetCarry(net, k, et, c), k, c) @@ rest(k)
        ELSE same

\* Mutant of CtrEvaluateIn: LOAD is tested before CLR.
CtrLoadBeforeClear(src, val, n, lc, c) ==
    LET same == [src |-> src, val |-> val, n |-> n, lc |-> lc, err |-> "none"]
        fail == [same EXCEPT !.err = "ValueError"]
        net  == [src |-> src, val |-> val]
        rest(k) == [n |-> k, lc |-> lc, err |-> "none"]
        pw   == PowerErr(src, val, c)
        clr  == StateIn(src, val, CtrCLR(c))
        load == StateIn(src, val, CtrLOAD(c))
        clk  == StateIn(src, val, CtrCLK(c))
        ep   == StateIn(src, val, CtrENABLE_P(c))
        et   == StateIn(src, val, CtrENABLE_T(c))
        data == [i \in 1..4 |-> StateIn(src, val, CtrD(c)[i])]
    IN  IF pw # "none" THEN [same EXCEPT !.err = pw]
        ELSE IF load = Conflict THEN fail
        ELSE IF ~Truthy(load)
             THEN IF \E i \in 1..4 : data[i] = Conflict THEN fail
                  ELSE LET k == list_to_int(data)
                       IN  IF et = Conflict
                           THEN CtrWriteCount(net, k, c)
                                   @@ [n |-> k, lc |-> lc, err |-> "ValueError"]
                           ELSE CtrSetCarry(CtrWriteCount(net, k, c), k, et, c) @@ rest(k)
        ELSE IF clr = Conflict THEN fail
        ELSE IF ~Truthy(clr) THEN CtrWriteCount(net, 0, c) @@ rest(0)
        ELSE IF clk = Conflict THEN fail
        ELSE IF ~(Truthy(clk) /\ ~Truthy(lc)) THEN [same EXCEPT !.lc = clk]
        ELSE IF ep = Conflict \/ (Truthy(ep) /\ et = Conflict) THEN fail
        ELSE IF Truthy(ep) /\ Truthy(et)
             THEN LET k == (n + 1) % 16
                  IN  CtrWriteCount(CtrSetCarry(net, k, et, c), k, c) @@ rest(k)
        ELSE same

\* BinaryCounter.evaluate: network, count, _last_clock and exception after it.
CtrEvaluateIn(src, val, n, lc, c) ==
    LET same == [src |-> src, val |-> val, n |-> n, lc |-> lc, err |-> "none"]
        fail == [same EXCEPT !.err = "ValueError"]
        net  == [src |-> src, val |-> val]
        rest(k) == [n |-> k, lc |-> lc, err |-> "none"]
        pw   == PowerErr(src, val, c)
        clr  == StateIn(src, val, CtrCLR(c))
        load == StateIn(src, val, CtrLOAD(c))
        clk  == StateIn(src, val, CtrCLK(c))
        ep   == StateIn(src, val, CtrENABLE_P(c))
        et   == StateIn(src, val, CtrENABLE_T(c))
        data == [i \in 1..4 |-> StateIn(src, val, CtrD(c)[i])]
    IN  IF pw # "none" THEN [same EXCEPT !.err = pw]
        ELSE IF clr = Conflict THEN fail
        ELSE IF ~Truthy(clr) THEN CtrWriteCount(net, 0, c) @@ rest(0)
        ELSE IF load = Conflict THEN fail
        ELSE IF ~Truthy(load)
             THEN IF \E i \in 1..4 : data[i] = Conflict THEN fail
                  ELSE LET k == list_to_int(data)
                       IN  IF et = Conflict
                           THEN CtrWriteCount(net, k, c)
                                   @@ [n |-> k, lc |-> lc, err |-> "ValueError"]
                           ELSE CtrSetCarry(CtrWriteCount(net, k, c), k, et, c) @@ rest(k)
        ELSE IF clk = Conflict THEN fail
        ELSE IF ~(Truthy(clk) /\ ~Truthy(lc)) THEN [same EXCEPT !.lc = clk]
        ELSE IF ep = Conflict \/ (Truthy(ep) /\ et = Conflict) THEN fail
        ELSE IF Truthy(ep) /\ Truthy(et)
             THEN LET k == (n + 1) % 16
                  IN  CtrWriteCount(CtrSetCarry(net, k, et, c), k, c) @@ rest(k)
        ELSE same

-----------------------------------------------------------------------------
(* A free-standing counter with the sources of the test fixture `counter`: *)
(* CLK low, CLR, LOAD, ENABLE_P and ENABLE_T high, D1..D4 low.             *)

\* Enabled pulses followed from a fresh counter.
MaxPulses == 17

InitCtr ==
    /\ sources = [j \in CtrPins("counter") |->
                    IF j = CtrCARRY("counter") THEN {CtrCarryVs("counter")}
                    ELSE IF j[2] = "Q" THEN {}
                    ELSE {Ext(j)}]
    /\ conductors = [j \in CtrPins("counter") |-> {}]
    /\ value = [s \in {CtrQVs("counter")[i] : i \in 1..4} \cup {CtrCarryVs("counter")}
                      \cup {Ext(j) : j \in CtrPins("counter")}
                 |-> IF s \in {Ext(VCC("counter")), Ext(CtrCLR("counter")),
                               Ext(CtrLOAD("counter")), Ext(CtrENABLE_P("counter")),
                               Ext(CtrENABLE_T("counter"))}
                     THEN High ELSE Low]
    /\ count = [c \in {"counter"} |-> 0]
    /\ last_clock = [c \in {"counter"} |-> Low]
    /\ reg_state = <<>> /\ clk_sampled = <<>>
    /\ memory = <<>> /\ written = <<>>
    /\ pulses = 0 /\ loaded = -1 /\ output_value = <<>>
    /\ op = <<"init", "counter">>
    /\ err = "none"

\* A test changes the level of a control pin's source.
CtrDrive(p, l) ==
    \E r \in {DriveIn([src |-> sources, val |-> value], p, l)} :
        /\ State(p) # l
        /\ sources' = r.src
        /\ value' = r.val
        /\ op' = <<"drive", "counter">>
        /\ err' = "none"
        /\ UNCHANGED <<conductors, chipvars>>

\* CounterTestHarness.set_input(v)
CtrSetInput(v) ==
    \E r \in {DriveAllIn([src |-> sources, val |-> value], CtrD("counter"),
                        int_to_list(v, 4), 1)} :
        /\ sources' = r.src
        /\ value' = r.val
        /\ op' = <<"set_input", "counter">>
        /\ err' = "none"
        /\ UNCHANGED <<conductors, chipvars>>

CtrEvaluate(c) ==
    \E r \in {CtrEvaluateIn(sources, value, count[c], last_clock[c], c)} :
        /\ sources' = r.src
        /\ value' = r.val
        /\ count' = [count EXCEPT ![c] = r.n]
        /\ last_clock' = [last_clock EXCEPT ![c] = r.lc]
        /\ pulses' = -1
        /\ op' = <<"evaluate", c>>
        /\ err' = r.err
        /\ UNCHANGED <<conductors, output_value, reg_state, ramvars, clk_sampled, loaded>>

\* CounterTestHarness.do_clock: clock high, evaluate, clock low, evaluate.
CtrDoClock(c) ==
    \E up \in {DriveIn([src |-> sources, val |-> value], CtrCLK(c), High)} :
    \E r1 \in {CtrEvaluateIn(up.src, up.val, count[c], last_clock[c], c)} :
    \E down \in {DriveIn([src |-> r1.src, val |-> r1.val], CtrCLK(c), Low)} :
    \E r2 \in {CtrEvaluateIn(down.src, down.val, r1.n, r1.lc, c)} :
    \E r \in {IF r1.err # "none" THEN r1 ELSE r2} :
    LET counting == /\ State(CtrCLR(c)) = High /\ State(CtrLOAD(c)) = High
        enabled  == /\ State(CtrENABLE_P(c)) = High /\ State(CtrENABLE_T(c)) = High
    IN  /\ sources' = r.src
        /\ value' = r.val
        /\ count' = [count EXCEPT ![c] = r.n]
        /\ last_clock' = [last_clock EXCEPT ![c] = r.lc]
        /\ pulses' = IF pulses < 0 \/ ~counting THEN -1
                     ELSE IF ~enabled THEN pulses
                     ELSE IF pulses < MaxPulses THEN pulses + 1 ELSE -1
        /\ op' = <<"do_clock", c>>
        /\ err' = r.err
        /\ UNCHANGED <<conductors, output_value, reg_state, ramvars, clk_sampled, loaded>>

NextCtr ==
    \/ \E p \in CtrControls("counter"), l \in Bools : CtrDrive(p, l)
    \/ \E v \in 0..15 : CtrSetInput(v)
    \/ CtrEvaluate("counter")
    \/ CtrDoClock("counter")

SpecCtr == InitCtr /\ [][NextCtr]_vars

CtrDLevels(c) == [i \in 1..4 |-> State(CtrD(c)[i])]
CtrQLevels(c) == [i \in 1..4 |-> State(CtrQ(c)[i])]
CtrCounting(c) == State(CtrCLR(c)) = High /\ State(CtrLOAD(c)) = High
CtrEnabled(c)  == State(CtrENABLE_P(c)) = High /\ State(CtrENABLE_T(c)) = High

\* C9: with CLR and LOAD high, a clock pulse adds exactly 1 modulo 16 to the
\* count when ENABLE_P and ENABLE_T are both high and leaves it unchanged when
\* either is low; n enabled pulses from count 0 leave n mod 16 on Q1..Q4.
C9_PulseIncrementsWhenEnabled ==
    /\ [][ (op' = <<"do_clock", "counter">> /\ CtrCounting("counter"))
           => IF CtrEnabled("counter")
              THEN /\ count'["counter"] = (count["counter"] + 1) % 16
                   /\ CtrQLevels("counter")' = int_to_list(count'["counter"], 4)
              ELSE /\ count'["counter"] = count["counter"]
                   /\ CtrQLevels("counter")' = CtrQLevels("counter") ]_vars
    /\ [](pulses >= 0 => /\ count["counter"] = pulses % 16
                         /\ pulses >= 1 =>
                              list_to_int(CtrQLevels("counter")) = pulses % 16)

\* Seventeen enabled pulses have wrapped the count round to 1.
C9_Witness ==
    /\ op = <<"do_clock", "counter">>
    /\ pulses = 17
    /\ count["counter"] = 1
    /\ list_to_int(CtrQLevels("counter")) = 1

\* C10: an evaluate with CLR high and LOAD low makes the count and Q1..Q4 the
\* value on D1..D4, whatever CLK and the enable pins are; a following pulse
\* with LOAD high and both enables high leaves the count at that value + 1
\* modulo 16.
C10_LoadThenCount ==
    [][ /\ (/\ op'[1] \in {"evaluate", "do_clock"}
            /\ State(CtrCLR("counter")) = High
            /\ State(CtrLOAD("counter")) = Low)
           => /\ count'["counter"] = list_to_int(CtrDLevels("counter"))
              /\ CtrQLevels("counter")' = CtrDLevels("counter")
        /\ (/\ op' = <<"do_clock", "counter">>
            /\ CtrCounting("counter") /\ CtrEnabled("counter")
            /\ count["counter"] = list_to_int(CtrDLevels("counter")))
           => /\ count'["counter"] = (list_to_int(CtrDLevels("counter")) + 1) % 16
              /\ list_to_int(CtrQLevels("counter")') = count'["counter"] ]_vars

\* The counter loaded 15 with CLK low and both enables low.
C10_Witness ==
    /\ op = <<"evaluate", "counter">>
    /\ State(CtrCLR("counter")) = High
    /\ State(CtrLOAD("counter")) = Low
    /\ State(CtrCLK("counter")) = Low
    /\ State(CtrENABLE_P("counter")) = Low
    /\ State(CtrENABLE_T("counter")) = Low
    /\ count["counter"] = 15
    /\ CtrQLevels("counter") = <<High, High, High, High>>

\* C11: after every evaluate of a powered counter the CARRY pin resolves high
\* exactly when the count is 15 and ENABLE_T is high.
C11_CarryIffFifteenAndEnableT ==
    (op[1] \in {"evaluate", "do_clock"} /\ err = "none")
        => (State(CtrCARRY("counter")) = High
              <=> (count["counter"] = 15 /\ State(CtrENABLE_T("counter")) = High))

\* C31: the counter is edge-triggered.  With CLR, LOAD and both enables
\* high, an evaluate that sees CLK high directly after an evaluate that saw
\* CLK high leaves the count unchanged.
C31_CountsOncePerRisingEdge ==
    [][ (/\ op = <<"evaluate", "counter">>
         /\ err = "none"
         /\ op' = <<"evaluate", "counter">>
         /\ State(CtrCLK("counter")) = High
         /\ CtrCounting("counter") /\ CtrEnabled("counter"))
           => count'["counter"] = count["counter"] ]_vars

\* C32: an evaluate of the powered counter with CLR low makes the count 0
\* and Q1..Q4 all low, whatever CLK, LOAD, D1..D4 and the enables are.
C32_ClearIsImmediate ==
    [][ (/\ op'[1] \in {"evaluate", "do_clock"}
         /\ State(CtrCLR("counter")) = Low)
           => /\ err' = "none"
              /\ count'["counter"] = 0
              /\ CtrQLevels("counter")' = <<Low, Low, Low, Low>> ]_vars

\* A single evaluate cleared the counter with LOAD low, 15 on D1..D4, CLK
\* high and both enables high.
C32_Witness ==
    /\ op = <<"evaluate", "counter">>
    /\ State(CtrCLR("counter")) = Low
    /\ State(CtrLOAD("counter")) = Low
    /\ State(CtrCLK("counter")) = High
    /\ CtrEnabled("counter")
    /\ CtrDLevels("counter") = <<High, High, High, High>>
    /\ count["counter"] = 0
    /\ CtrQLevels("counter") = <<Low, Low, Low, Low>>

-----------------------------------------------------------------------------
(* Gate and LogicPart: the gate-array chips                                *)

GateArrays == {"QuadNandGate", "QuadNorGate", "HexNotGate",
               "QuadAndGate", "QuadOrGate", "QuadXorGate"}

\* The class of a gate-array chip.  A chip tested on its own is named after
\* its class; the assemblies name theirs low_subtract_xor and
\* high_subtract_xor (QuadXorGate) and clk_nand (QuadNandGate).
GateKind(c) ==
    CASE c \in {"low_subtract_xor", "high_subtract_xor"} -> "QuadXorGate"
      [] c = "clk_nand" -> "QuadNandGate"
      [] OTHER -> c

\* Number of gates of a chip: six inverters, four two-input gates otherwise.
NumGates(c) == IF GateKind(c) = "HexNotGate" THEN 6 ELSE 4

GateA(c, i)  == Pin(c, "A", i)
GateB(c, i)  == Pin(c, "B", i)
GateY(c, i)  == Pin(c, "Y", i)
GateVs(c, i) == <<c, "gate_vs", i>>

GateInputs(c, i) == IF GateKind(c) = "HexNotGate" THEN <<GateA(c, i)>> ELSE <<GateA(c, i), GateB(c, i)>>

GatePins(c) == {VCC(c), GND(c)}
                 \cup UNION {{GateY(c, i)} \cup {GateInputs(c, i)[k] : k \in DOMAIN GateInputs(c, i)}
                             : i \in 1..NumGates(c)}

\* Mutant of GateFunction: the exclusive-or gates compute an inclusive or.
GateFunctionXorAsOr(c, ins) ==
    LET all == \A i \in DOMAIN ins : Truthy(ins[i])
        any == \E i \in DOMAIN ins : Truthy(ins[i])
        bool(b) == IF b THEN High ELSE Low
        k == GateKind(c)
    IN  CASE k = "QuadNandGate" -> bool(~all)
          [] k = "QuadNorGate"  -> bool(~any)
          [] k = "HexNotGate"   -> bool(~Truthy(ins[1]))
          [] k = "QuadAndGate"  -> bool(all)
          [] k = "QuadOrGate"   -> bool(any)
          [] k = "QuadXorGate"  -> bool(any)

\* The level a gate of chip c computes from the levels ins of its inputs.
GateFunction(c, ins) ==
    LET all == \A i \in DOMAIN ins : Truthy(ins[i])
        any == \E i \in DOMAIN ins : Truthy(ins[i])
        bool(b) == IF b THEN High ELSE Low
        k == GateKind(c)
    IN  CASE k = "QuadNandGate" -> bool(~all)
          [] k = "QuadNorGate"  -> bool(~any)
          [] k = "HexNotGate"   -> bool(~Truthy(ins[1]))
          [] k = "QuadAndGate"  -> bool(all)
          [] k = "QuadOrGate"   -> bool(any)
          [] k = "QuadXorGate"  -> bool(Truthy(ins[1]) # Truthy(ins[2]))

\* LogicPart.evaluate: the gates i..NumGates(c) in order; a conflict on an
\* input raises and leaves the earlier gates written.
RECURSIVE LogicEvaluateIn(_, _, _)
LogicEvaluateIn(net, c, i) ==
    IF i > NumGates(c) THEN net
    ELSE LET ins == [k \in DOMAIN GateInputs(c, i) |->
                        StateIn(net.src, net.val, GateInputs(c, i)[k])]
         IN  IF \E k \in DOMAIN ins : ins[k] = Conflict
             THEN [net EXCEPT !.err = "ValueError"]
             ELSE LogicEvaluateIn(
                     [src |-> SetIn(net.src, GateY(c, i), GateVs(c, i)),
                      val |-> [net.val EXCEPT ![GateVs(c, i)] = GateFunction(c, ins)],
                      err |-> "none"], c, i + 1)

\* evaluate of a gate-array chip.  QuadNandGate(LogicPart, PoweredPart) checks
\* power and then evaluates its gates; the chips declared
\* (PoweredPart, LogicPart) evaluate their gates and then check power.
GateArrayEvaluateIn(src, val, c) ==
    LET same == [src |-> src, val |-> val, err |-> "none"]
        pw   == PowerErr(src, val, c)
    IN  IF GateKind(c) = "QuadNandGate"
        THEN IF pw # "none" THEN [same EXCEPT !.err = pw]
             ELSE LogicEvaluateIn(same, c, 1)
        ELSE LET g == LogicEvaluateIn(same, c, 1)
             IN  IF g.err # "none" THEN g ELSE [g EXCEPT !.err = pw]

GateArrayEvaluate(c) ==
    \E r \in {GateArrayEvaluateIn(sources, value, c)} :
        /\ sources' = r.src
        /\ value' = r.val
        /\ op' = <<"evaluate", c>>
        /\ err' = r.err
        /\ UNCHANGED <<conductors, chipvars>>

-----------------------------------------------------------------------------
(* One powered gate-array chip, its gates driven as the test_*_logic tests *)
(* of test_logic_parts.py drive them.                                      *)

\* init_power(chip) on a freshly built chip c, for each class of chip.
InitGates ==
    \E c \in GateArrays :
        /\ sources = [j \in GatePins(c) |-> IF j \in {VCC(c), GND(c)} THEN {Ext(j)} ELSE {}]
        /\ conductors = [j \in GatePins(c) |-> {}]
        /\ value = [s \in {Ext(j) : j \in GatePins(c)} \cup {GateVs(c, i) : i \in 1..NumGates(c)}
                      |-> IF s = Ext(VCC(c)) THEN High ELSE Low]
        /\ op = <<"init", c>>
    /\ reg_state = <<>> /\ last_clock = <<>> /\ count = <<>> /\ clk_sampled = <<>>
    /\ memory = <<>> /\ written = <<>>
    /\ pulses = -1 /\ loaded = -1 /\ output_value = <<>>
    /\ err = "none"

\* gate.inputs[k].set(VoltageSource(ins[k])) for the inputs of gate i, then
\* chip.evaluate().
GateArrayTest(c, i, ins) ==
    /\ op[2] = c
    /\ \E d \in {SetAllIn([src |-> sources, val |-> value], GateInputs(c, i),
                          [k \in DOMAIN GateInputs(c, i) |-> Ext(GateInputs(c, i)[k])], ins, 1)} :
         \E r \in {GateArrayEvaluateIn(d.src, d.val, c)} :
            /\ sources' = r.src
            /\ value' = r.val
            /\ op' = <<"evaluate", c>>
            /\ err' = r.err
            /\ UNCHANGED <<conductors, chipvars>>

NextGates ==
    \E c \in GateArrays : \E i \in 1..NumGates(c) :
        \E ins \in [DOMAIN GateInputs(c, i) -> Bools] : GateArrayTest(c, i, ins)

SpecGates == InitGates /\ [][NextGates]_vars

\* The truth tables of the six chips, a and b being driven levels (b is
\* unused for the inverter).
GateTruthTable(kind, a, b) ==
    CASE kind = "QuadNandGate" -> IF a = High /\ b = High THEN Low ELSE High
      [] kind = "QuadNorGate"  -> IF a = Low /\ b = Low THEN High ELSE Low
      [] kind = "QuadAndGate"  -> IF a = High /\ b = High THEN High ELSE Low
      [] kind = "QuadOrGate"   -> IF a = Low /\ b = Low THEN Low ELSE High
      [] kind = "QuadXorGate"  -> IF a = b THEN Low ELSE High
      [] kind = "HexNotGate"   -> IF a = High THEN Low ELSE High

\* C28: after evaluate of a powered gate-array chip every gate whose inputs
\* are driven has its output at the chip's function of them: NAND, NOR, AND,
\* OR, XOR of two inputs for the quad chips, NOT of one for the hex inverter.
C28_GateOutputs ==
    (op[1] = "evaluate" /\ err = "none")
        => \A i \in 1..NumGates(op[2]) :
              LET ins == GateInputs(op[2], i)
                  a == State(ins[1])
                  b == State(ins[Len(ins)])
              IN  (a \in Bools /\ b \in Bools)
                    => State(GateY(op[2], i)) = GateTruthTable(op[2], a, b)

\* An exclusive-or chip with every gate driven, two of them with both
\* inputs high and one with inputs that differ.
C28_Witness ==
    /\ op = <<"evaluate", "QuadXorGate">> /\ err = "none"
    /\ \A i \in 1..4 : State(GateA("QuadXorGate", i)) \in Bools /\ State(GateB("QuadXorGate", i)) \in Bools
    /\ State(GateA("QuadXorGate", 1)) = High /\ State(GateB("QuadXorGate", 1)) = High
    /\ State(GateY("QuadXorGate", 1)) = Low
    /\ State(GateA("QuadXorGate", 4)) = High /\ State(GateB("QuadXorGate", 4)) = High
    /\ State(GateA("QuadXorGate", 2)) = Low /\ State(GateB("QuadXorGate", 2)) = High
    /\ State(GateY("QuadXorGate", 2)) = High

-----------------------------------------------------------------------------
(* Freshly built chips on shared power rails (connect_power), the rails    *)
(* driven as test_all_parts_power_required drives VCC and GND.             *)

VccRail == Pin("rail", "vcc", 0)
GndRail == Pin("rail", "gnd", 0)

PowerGateArrays == {"QuadNandGate", "QuadNorGate"}
PowerJunctions ==
    {VccRail, GndRail} \cup UNION {GatePins(c) : c \in PowerGateArrays}
        \cup TransPins("trans") \cup RegPins("reg") \cup CtrPins("counter")

PowerSourceIds ==
    {Ext(VccRail), Ext(GndRail)} \cup {CtrCarryVs("counter")}
        \cup {GateVs(c, i) : c \in PowerGateArrays, i \in 1..4}
        \cup TransSources("trans")
        \cup {RegQVs("reg")[i] : i \in 1..4} \cup {CtrQVs("counter")[i] : i \in 1..4}

InitPower ==
    /\ sources = [j \in PowerJunctions |->
                    IF j = CtrCARRY("counter") THEN {CtrCarryVs("counter")} ELSE {}]
    /\ conductors = [j \in PowerJunctions |->
                    IF j[2] = "VCC" THEN {VccRail}
                    ELSE IF j[2] = "GND" THEN {GndRail}
                    ELSE {}]
    /\ value = [s \in PowerSourceIds |-> Low]
    /\ reg_state = [c \in {"reg"} |-> [i \in 1..4 |-> Low]]
    /\ last_clock = [c \in {"reg", "counter"} |-> Low]
    /\ clk_sampled = [c \in {"reg"} |-> Low]
    /\ count = [c \in {"counter"} |-> 0]
    /\ memory = <<>> /\ written = <<>>
    /\ pulses = -1 /\ loaded = -1 /\ output_value = <<>>
    /\ op = <<"init", "rail">>
    /\ err = "none"

\* A test drives a power rail low or high, or leaves it unconnected.
PowerDrive(p, l) ==
    \E r \in {DriveIn([src |-> sources, val |-> value], p, l)} :
        /\ State(p) # l
        /\ sources' = r.src
        /\ value' = r.val
        /\ op' = <<"drive", "rail">>
        /\ err' = "none"
        /\ UNCHANGED <<conductors, chipvars>>

NextPower ==
    \/ \E p \in {VccRail, GndRail}, l \in Levels : PowerDrive(p, l)
    \/ \E c \in PowerGateArrays : GateArrayEvaluate(c)
    \/ TransEvaluate("trans")
    \/ RegEvaluate("reg")
    \/ CtrEvaluate("counter")

SpecPower == InitPower /\ [][NextPower]_vars

\* C5: evaluate of a powered chip fails with an error unless VCC resolves
\* high and GND resolves low at that call.
C5_EvaluateNeedsPower ==
    (op[1] = "evaluate" /\ err = "none")
        => (State(VccRail) = High /\ State(GndRail) = Low)

\* C37: an evaluate of a gate-array chip whose power check fails has not
\* changed or newly attached the output driver of any of its gates.
C37_PowerCheckedBeforeGates ==
    [][ \A c \in PowerGateArrays :
          (op' = <<"evaluate", c>> /\ PowerErr(sources, value, c) # "none")
              => \A i \in 1..NumGates(c) :
                    /\ sources'[GateY(c, i)] = sources[GateY(c, i)]
                    /\ value'[GateVs(c, i)] = value[GateVs(c, i)] ]_vars

-----------------------------------------------------------------------------
(* Ram                                                                     *)

\* A0..A14, and self.address_lines, which lists A0..A13 only.
RamA(c) == [i \in 1..15 |-> Pin(c, "A", i - 1)]
RamAddressLines(c) == [i \in 1..14 |-> RamA(c)[i]]

RamIO(c)   == [i \in 1..8 |-> Pin(c, "IO", i - 1)]
RamIOVs(c) == [i \in 1..8 |-> <<c, "io_vs", i - 1>>]
RamWRITE_ENABLE(c)  == Pin(c, "WRITE_ENABLE", 0)
RamOUTPUT_ENABLE(c) == Pin(c, "OUTPUT_ENABLE", 0)
RamCHIP_SELECT(c)   == Pin(c, "CHIP_SELECT", 0)

RamControls(c) == {RamCHIP_SELECT(c), RamWRITE_ENABLE(c), RamOUTPUT_ENABLE(c)}
RamPins(c) == {VCC(c), GND(c)} \cup RamControls(c)
                \cup {RamA(c)[i] : i \in 1..15} \cup {RamIO(c)[i] : i \in 1..8}

\* self.io_lines as <<pin, source>> pairs
RamIoLines(c) == {<<RamIO(c)[i], RamIOVs(c)[i]>> : i \in 1..8}

\* Mutant of RamStore: a write lands in every word.
RamStoreEverywhere(mem, address, data) == [a \in DOMAIN mem |-> data]

\* self._memory[address] = data
\* Mutant of RamStore: a write also lands in word 0.
RamStoreAlsoZero(mem, address, data) == [mem EXCEPT ![address] = data, ![0] = data]

RamStore(mem, address, data) == [mem EXCEPT ![address] = data]

\* Mutant of RamEvaluateIn: a deselected chip keeps its drivers attached.
RamDeselectKeepsDrivers(src, val, mem, c) ==
    LET same == [src |-> src, val |-> val, mem |-> mem, err |-> "none"]
        fail == [same EXCEPT !.err = "ValueError"]
        pw   == PowerErr(src, val, c)
        cs   == StateIn(src, val, RamCHIP_SELECT(c))
        we   == StateIn(src, val, RamWRITE_ENABLE(c))
        oe   == StateIn(src, val, RamOUTPUT_ENABLE(c))
        hz   == ClearAllIn(src, RamIoLines(c))
        data == [i \in 1..8 |-> StateIn(hz, val, RamIO(c)[i])]
        addr(s) == [i \in 1..14 |-> StateIn(s, val, RamAddressLines(c)[i])]
        bad(levels) == \E i \in DOMAIN levels : levels[i] = Conflict
    IN  IF pw # "none" THEN [same EXCEPT !.err = pw]
        ELSE IF cs = Conflict THEN fail
        ELSE IF Truthy(cs) THEN same
        ELSE IF we = Conflict THEN fail
        ELSE IF ~Truthy(we)
             THEN IF bad(data) \/ bad(addr(hz))
                  THEN [fail EXCEPT !.src = hz]
                  ELSE [same EXCEPT !.src = hz,
                                    !.mem = RamStore(mem, list_to_int(addr(hz)),
                                                     list_to_int(data))]
        ELSE IF oe = Conflict THEN fail
        ELSE IF ~Truthy(oe)
             THEN IF bad(addr(src)) THEN fail
                  ELSE SetAllIn([src |-> src, val |-> val], RamIO(c), RamIOVs(c),
                                int_to_list(mem[list_to_int(addr(src))], 8), 1)
                         @@ [mem |-> mem, err |-> "none"]
        ELSE [same EXCEPT !.src = hz]

\* Ram.evaluate
RamEvaluateIn(src, val, mem, c) ==
    LET same == [src |-> src, val |-> val, mem |-> mem, err |-> "none"]
        fail == [same EXCEPT !.err = "ValueError"]
        pw   == PowerErr(src, val, c)
        cs   == StateIn(src, val, RamCHIP_SELECT(c))
        we   == StateIn(src, val, RamWRITE_ENABLE(c))
        oe   == StateIn(src, val, RamOUTPUT_ENABLE(c))
        hz   == ClearAllIn(src, RamIoLines(c))
        data == [i \in 1..8 |-> StateIn(hz, val, RamIO(c)[i])]
        addr(s) == [i \in 1..14 |-> StateIn(s, val, RamAddressLines(c)[i])]
        bad(levels) == \E i \in DOMAIN levels : levels[i] = Conflict
    IN  IF pw # "none" THEN [same EXCEPT !.err = pw]
        ELSE IF cs = Conflict THEN fail
        ELSE IF Truthy(cs) THEN [same EXCEPT !.src = hz]
        ELSE IF we = Conflict THEN fail
        ELSE IF ~Truthy(we)
             THEN IF bad(data) \/ bad(addr(hz))
                  THEN [fail EXCEPT !.src = hz]
                  ELSE [same EXCEPT !.src = hz,
                                    !.mem = RamStore(mem, list_to_int(addr(hz)),
                                                     list_to_int(data))]
        ELSE IF oe = Conflict THEN fail
        ELSE IF ~Truthy(oe)
             THEN IF bad(addr(src)) THEN fail
                  ELSE SetAllIn([src |-> src, val |-> val], RamIO(c), RamIOVs(c),
                                int_to_list(mem[list_to_int(addr(src))], 8), 1)
                         @@ [mem |-> mem, err |-> "none"]
        ELSE [same EXCEPT !.src = hz]

\* The address the pins A0..A14 encode, and the byte the test's sources put
\* on IO0..IO7 (-1 unless all eight are driven).
RamPinAddress(c) == list_to_int([i \in 1..15 |-> State(RamA(c)[i])])
RamDrivenByte(c) ==
    IF \A i \in 1..8 : Ext(RamIO(c)[i]) \in sources[RamIO(c)[i]]
    THEN list_to_int([i \in 1..8 |-> value[Ext(RamIO(c)[i])]])
    ELSE -1

RamEvaluate(c) ==
    \E r \in {RamEvaluateIn(sources, value, memory[c], c)} :
        /\ sources' = r.src
        /\ value' = r.val
        /\ memory' = [memory EXCEPT ![c] = r.mem]
        /\ written' = IF /\ r.err = "none"
                         /\ State(RamCHIP_SELECT(c)) = Low
                         /\ State(RamWRITE_ENABLE(c)) = Low
                      THEN [written EXCEPT ![c][RamPinAddress(c)] = RamDrivenByte(c)]
                      ELSE written
        /\ op' = <<"evaluate", c>>
        /\ err' = r.err
        /\ UNCHANGED <<conductors, output_value, reg_state, last_clock, count, clk_sampled, pulses, loaded>>

\* Ram.fiddle(address, data)
RamFiddle(c, address, data) ==
    /\ memory' = [memory EXCEPT ![c][address] = data]
    /\ written' = [written EXCEPT ![c][address] = data]
    /\ op' = <<"fiddle", c>>
    /\ err' = "none"
    /\ UNCHANGED <<netvars, output_value, reg_state, last_clock, count, clk_sampled, pulses, loaded>>

-----------------------------------------------------------------------------
(* A powered Ram chip driven pin by pin, as in                             *)
(* test_ram_can_read_and_write_data.                                       *)

\* Addresses and bytes the test puts on the pins.
RamAddresses == {5, 10}
RamBytes     == {20, 235}
Released     == [i \in 1..8 |-> Floating]

\* The words of the memory that are modelled: those the addresses reach,
\* and word 0, which unconnected address pins select.
RamWordsOf(addresses) == {0} \cup addresses \cup {a % (2 ^ 14) : a \in addresses}

RamInitWith(addresses) ==
    /\ sources = [j \in RamPins("ram") |->
                    IF j \in RamControls("ram") \cup {VCC("ram"), GND("ram")}
                    THEN {Ext(j)} ELSE {}]
    /\ conductors = [j \in RamPins("ram") |-> {}]
    /\ value = [s \in {Ext(j) : j \in RamPins("ram")} \cup {RamIOVs("ram")[i] : i \in 1..8}
                 |-> IF s \in {Ext(VCC("ram")), Ext(RamWRITE_ENABLE("ram")),
                               Ext(RamOUTPUT_ENABLE("ram"))}
                     THEN High ELSE Low]
    /\ memory = [c \in {"ram"} |-> [a \in RamWordsOf(addresses) |-> 0]]
    /\ written = [c \in {"ram"} |-> [a \in RamWordsOf(addresses) |-> -1]]
    /\ reg_state = <<>> /\ last_clock = <<>> /\ count = <<>> /\ clk_sampled = <<>>
    /\ pulses = -1 /\ loaded = -1 /\ output_value = <<>>
    /\ op = <<"init", "ram">>
    /\ err = "none"

InitRam == RamInitWith(RamAddresses)

\* The test changes the level of a control pin's source.
RamDrive(p, l) ==
    \E r \in {DriveIn([src |-> sources, val |-> value], p, l)} :
        /\ State(p) # l
        /\ sources' = r.src
        /\ value' = r.val
        /\ op' = <<"drive", "ram">>
        /\ err' = "none"
        /\ UNCHANGED <<conductors, chipvars>>

\* The test sets the address lines to the bits of a.
RamSetAddress(a) ==
    \E r \in {DriveAllIn([src |-> sources, val |-> value], RamA("ram"),
                        int_to_list(a, 15), 1)} :
        /\ RamPinAddress("ram") # a
        /\ sources' = r.src
        /\ value' = r.val
        /\ op' = <<"set_address", "ram">>
        /\ err' = "none"
        /\ UNCHANGED <<conductors, chipvars>>

\* The test sets the data lines to the levels v, or clears its sources from
\* them (v = Released).
RamSetData(v) ==
    \E r \in {DriveAllIn([src |-> sources, val |-> value], RamIO("ram"), v, 1)} :
        /\ sources' = r.src
        /\ value' = r.val
        /\ op' = <<"set_data", "ram">>
        /\ err' = "none"
        /\ UNCHANGED <<conductors, chipvars>>

NextRam ==
    \/ \E p \in RamControls("ram"), l \in Bools : RamDrive(p, l)
    \/ \E a \in RamAddresses : RamSetAddress(a)
    \/ \E v \in {int_to_list(b, 8) : b \in RamBytes} \cup {Released} : RamSetData(v)
    \/ RamEvaluate("ram")

SpecRam == InitRam /\ [][NextRam]_vars

RamIOLevels(c) == [i \in 1..8 |-> State(RamIO(c)[i])]

\* C12: a byte written through the pins at an address (CHIP_SELECT low,
\* WRITE_ENABLE low) is what the data pins read at every later evaluate with
\* CHIP_SELECT low, WRITE_ENABLE high, OUTPUT_ENABLE low, the data drivers
\* released and that address on the pins, whatever was written to other
\* addresses in between.
C12_WriteReadRoundTrip ==
    [][ (/\ op' = <<"evaluate", "ram">>
         /\ State(RamCHIP_SELECT("ram")) = Low
         /\ State(RamWRITE_ENABLE("ram")) = High
         /\ State(RamOUTPUT_ENABLE("ram")) = Low
         /\ \A i \in 1..8 : Ext(RamIO("ram")[i]) \notin sources[RamIO("ram")[i]]
         /\ written["ram"][RamPinAddress("ram")] >= 0)
        => /\ err' = "none"
           /\ RamIOLevels("ram")' = int_to_list(written["ram"][RamPinAddress("ram")], 8) ]_vars

\* Address 10 reads back 235 while address 5 holds 20.
C12_Witness ==
    /\ op = <<"evaluate", "ram">>
    /\ State(RamWRITE_ENABLE("ram")) = High
    /\ State(RamOUTPUT_ENABLE("ram")) = Low
    /\ RamPinAddress("ram") = 10
    /\ written["ram"][10] = 235
    /\ written["ram"][5] = 20
    /\ RamIOLevels("ram") = int_to_list(235, 8)

RamDriversOn(c) == \A i \in 1..8 : RamIOVs(c)[i] \in sources[RamIO(c)[i]]
RamDriversOff(c) == \A i \in 1..8 : RamIOVs(c)[i] \notin sources[RamIO(c)[i]]
RamOutputs(c) ==
    /\ State(RamCHIP_SELECT(c)) = Low
    /\ State(RamWRITE_ENABLE(c)) = High
    /\ State(RamOUTPUT_ENABLE(c)) = Low

-----------------------------------------------------------------------------
(* A powered Ram chip preloaded with fiddle and read through its pins.     *)

\* Addresses preloaded and read: one below 2^14 and one with A14 set.
PreloadAddresses == {10, 16394}

InitPreload == RamInitWith(PreloadAddresses)

NextPreload ==
    \/ \E a \in PreloadAddresses, b \in RamBytes : RamFiddle("ram", a, b)
    \/ \E a \in PreloadAddresses : RamSetAddress(a)
    \/ \E p \in {RamCHIP_SELECT("ram"), RamOUTPUT_ENABLE("ram")}, l \in Bools : RamDrive(p, l)
    \/ RamEvaluate("ram")

SpecPreload == InitPreload /\ [][NextPreload]_vars

\* C13: after fiddle(a, v), an evaluate with CHIP_SELECT low, WRITE_ENABLE
\* high, OUTPUT_ENABLE low and A0..A14 encoding a puts v on the data pins,
\* for every address a of the 2^15 words.
C13_EveryWordReadable ==
    [][ (/\ op' = <<"evaluate", "ram">>
         /\ State(RamCHIP_SELECT("ram")) = Low
         /\ State(RamWRITE_ENABLE("ram")) = High
         /\ State(RamOUTPUT_ENABLE("ram")) = Low
         /\ written["ram"][RamPinAddress("ram")] >= 0)
        => /\ err' = "none"
           /\ RamIOLevels("ram")' = int_to_list(written["ram"][RamPinAddress("ram")], 8) ]_vars

-----------------------------------------------------------------------------
(* FourBitAdder                                                            *)

AddA(c)   == [i \in 1..4 |-> Pin(c, "A", i)]
AddB(c)   == [i \in 1..4 |-> Pin(c, "B", i)]
AddS(c)   == [i \in 1..4 |-> Pin(c, "S", i)]
AddSVs(c) == [i \in 1..4 |-> <<c, "sum_vs", i>>]
AddCARRY_IN(c)   == Pin(c, "CARRY_IN", 0)
AddCARRY_OUT(c)  == Pin(c, "CARRY_OUT", 0)
AddCarryOutVs(c) == <<c, "carry_out_vs", 0>>

AddPins(c) == {VCC(c), GND(c), AddCARRY_IN(c), AddCARRY_OUT(c)}
                \cup {AddA(c)[i] : i \in 1..4} \cup {AddB(c)[i] : i \in 1..4}
                \cup {AddS(c)[i] : i \in 1..4}
AddSources(c) == {AddCarryOutVs(c)} \cup {AddSVs(c)[i] : i \in 1..4}

\* Mutant of AddResult: CARRY_IN is not added.
AddResultNoCarryIn(a, b, cin) == list_to_int(a) + list_to_int(b)

\* The adder's result from the levels read on a, b and CARRY_IN.
AddResult(a, b, cin) ==
    list_to_int(a) + list_to_int(b) + (IF Truthy(cin) THEN 1 ELSE 0)

\* FourBitAdder.evaluate
AddEvaluateIn(src, val, c) ==
    LET same == [src |-> src, val |-> val, err |-> "none"]
        pw   == PowerErr(src, val, c)
        a    == [i \in 1..4 |-> StateIn(src, val, AddA(c)[i])]
        b    == [i \in 1..4 |-> StateIn(src, val, AddB(c)[i])]
        cin  == StateIn(src, val, AddCARRY_IN(c))
        result == AddResult(a, b, cin)
        carried == [src |-> SetIn(src, AddCARRY_OUT(c), AddCarryOutVs(c)),
                    val |-> [val EXCEPT ![AddCarryOutVs(c)] =
                                IF (result \div 16) % 2 = 1 THEN High ELSE Low]]
    IN  IF pw # "none" THEN [same EXCEPT !.err = pw]
        ELSE IF cin = Conflict \/ \E i \in 1..4 : a[i] = Conflict \/ b[i] = Conflict
             THEN [same EXCEPT !.err = "ValueError"]
        ELSE SetAllIn(carried, AddS(c), AddSVs(c), int_to_list(result % 16, 4), 1)
               @@ [err |-> "none"]

AddEvaluate(c) ==
    \E r \in {AddEvaluateIn(sources, value, c)} :
        /\ sources' = r.src
        /\ value' = r.val
        /\ op' = <<"evaluate", c>>
        /\ err' = r.err
        /\ UNCHANGED <<conductors, chipvars>>

-----------------------------------------------------------------------------
(* A powered FourBitAdder on three 4-line buses: the adder fixture and     *)
(* test_adder.                                                             *)

AdderBuses == {"a_bus", "b_bus", "sum_bus"}
AdderJunctions == AddPins("adder") \cup {BusLine(b, i) : b \in AdderBuses, i \in 1..4}

InitAdder ==
    /\ sources = [j \in AdderJunctions |->
                    IF j \in {VCC("adder"), GND("adder")} THEN {Ext(j)} ELSE {}]
    /\ conductors = [j \in AdderJunctions |->
                    IF j[1] = "adder" /\ j[2] = "A" THEN {BusLine("a_bus", j[3])}
                    ELSE IF j[1] = "adder" /\ j[2] = "B" THEN {BusLine("b_bus", j[3])}
                    ELSE IF j[1] = "adder" /\ j[2] = "S" THEN {BusLine("sum_bus", j[3])}
                    ELSE {}]
    /\ value = [s \in AddSources("adder") \cup {BusVs(b, i) : b \in AdderBuses, i \in 1..4}
                      \cup {Ext(VCC("adder")), Ext(GND("adder")), Ext(AddCARRY_IN("adder"))}
                 |-> IF s = Ext(VCC("adder")) THEN High ELSE Low]
    /\ reg_state = <<>> /\ last_clock = <<>> /\ count = <<>> /\ clk_sampled = <<>>
    /\ memory = <<>> /\ written = <<>>
    /\ pulses = -1 /\ loaded = -1 /\ output_value = <<>>
    /\ op = <<"init", "adder">>
    /\ err = "none"

\* The steps of test_adder, each followed by the evaluate: a value pulled
\* onto a_bus or b_bus, or CARRY_IN driven.
AdderPull(b, v) ==
    \E p \in {PullToIn([src |-> sources, val |-> value], b, int_to_list(v, 4), 1, 4)} :
    \E r \in {AddEvaluateIn(p.src, p.val, "adder")} :
        /\ sources' = r.src
        /\ value' = r.val
        /\ op' = <<"test_adder", "adder">>
        /\ err' = r.err
        /\ UNCHANGED <<conductors, chipvars>>

AdderCarryIn(cin) ==
    \E p \in {DriveIn([src |-> sources, val |-> value], AddCARRY_IN("adder"), cin)} :
    \E r \in {AddEvaluateIn(p.src, p.val, "adder")} :
        /\ sources' = r.src
        /\ value' = r.val
        /\ op' = <<"test_adder", "adder">>
        /\ err' = r.err
        /\ UNCHANGED <<conductors, chipvars>>

NextAdder ==
    \/ \E b \in {"a_bus", "b_bus"}, v \in 0..15 : AdderPull(b, v)
    \/ \E cin \in Bools : AdderCarryIn(cin)

SpecAdder == InitAdder /\ [][NextAdder]_vars

AdderIn(b) == list_to_int(BusValue(b, 4))
AdderTotal ==
    AdderIn("a_bus") + AdderIn("b_bus")
        + (IF State(AddCARRY_IN("adder")) = High THEN 1 ELSE 0)

\* C14: after an evaluate with a, b and the carry-in driven, S1..S4 read
\* (a + b + c) mod 16 and CARRY_OUT is high iff a + b + c >= 16, whatever was
\* evaluated before.
C14_AdderSum ==
    (/\ op = <<"test_adder", "adder">>
     /\ \A b \in {"a_bus", "b_bus"}, i \in 1..4 : State(BusLine(b, i)) \in Bools
     /\ State(AddCARRY_IN("adder")) \in Bools)
        => /\ err = "none"
           /\ BusValue("sum_bus", 4) = int_to_list(AdderTotal % 16, 4)
           /\ [i \in 1..4 |-> State(AddS("adder")[i])] = int_to_list(AdderTotal % 16, 4)
           /\ State(AddCARRY_OUT("adder")) = (IF AdderTotal >= 16 THEN High ELSE Low)

\* 15 + 15 + 1 = 31: sum 15 with carry out.
C14_Witness ==
    /\ op = <<"test_adder", "adder">>
    /\ AdderIn("a_bus") = 15 /\ AdderIn("b_bus") = 15
    /\ State(AddCARRY_IN("adder")) = High
    /\ AdderIn("sum_bus") = 15
    /\ State(AddCARRY_OUT("adder")) = High

-----------------------------------------------------------------------------
(* Output                                                                  *)

\* A line of the Control: a PoweredJunction, its source being Ext of it.
ControlWire(n) == Pin("control", n, 0)

\* The junctions an Output unit is built with, and its bus (8 lines): the
\* Control hands its own lines to its output unit.
OutputLine(c, n) == IF c = "control_output" THEN ControlWire(n) ELSE <<c, n, 0>>
OutputBus(c)     == "bus"

\* if self.clk.state and self.output_enable.state
OutputLatches(clk, en) == Truthy(clk) /\ Truthy(en)

\* Output.evaluate: the new value and the exception raised; ov is the
\* value before.
OutputEvaluateIn(src, val, ov, c) ==
    LET clr  == StateIn(src, val, OutputLine(c, "clr"))
        clk  == StateIn(src, val, OutputLine(c, "clk"))
        en   == StateIn(src, val, OutputLine(c, "output_enable"))
        bits == [i \in 1..8 |-> StateIn(src, val, BusLine(OutputBus(c), i))]
    IN  IF clr = Conflict THEN [ov |-> ov, err |-> "ValueError"]
        ELSE IF Truthy(clr) THEN [ov |-> 0, err |-> "none"]
        ELSE IF clk = Conflict THEN [ov |-> ov, err |-> "ValueError"]
        ELSE IF ~Truthy(clk) THEN [ov |-> ov, err |-> "none"]
        ELSE IF en = Conflict THEN [ov |-> ov, err |-> "ValueError"]
        ELSE IF ~OutputLatches(clk, en) THEN [ov |-> ov, err |-> "none"]
        ELSE IF \E i \in 1..8 : bits[i] = Conflict THEN [ov |-> ov, err |-> "ValueError"]
        ELSE [ov |-> list_to_int(bits), err |-> "none"]

-----------------------------------------------------------------------------
(* Assemblies: parts wired together and evaluated one after the other.     *)

\* The state an assembly's evaluate works on: the network, _state and
\* _last_clock of its registers, the memory of its Ram, and the exception
\* raised so far.
AssemblyNet(net) ==
    [src |-> net.src, val |-> net.val, st |-> reg_state, lc |-> last_clock,
     mem |-> memory, cnt |-> count, ov |-> output_value, err |-> "none"]

NetWith(net, r) == [net EXCEPT !.src = r.src, !.val = r.val]
NetAfter(net, r) == [net EXCEPT !.src = r.src, !.val = r.val, !.err = r.err]
NetAfterReg(net, c, r) ==
    [net EXCEPT !.src = r.src, !.val = r.val, !.err = r.err, !.st[c] = r.st, !.lc[c] = r.lc]
NetAfterRam(net, c, r) ==
    [net EXCEPT !.src = r.src, !.val = r.val, !.err = r.err, !.mem[c] = r.mem]
NetAfterOutput(net, c, r) == [net EXCEPT !.err = r.err, !.ov[c] = r.ov]
NetAfterCtr(net, c, r) ==
    [net EXCEPT !.src = r.src, !.val = r.val, !.err = r.err, !.cnt[c] = r.n, !.lc[c] = r.lc]

\* low_adder.sum + high_adder.sum of the Alu, and the source on
\* flags_register.D2.
AluSum == [k \in 1..8 |-> AddS(IF k <= 4 THEN "low_adder" ELSE "high_adder")[((k - 1) % 4) + 1]]
AluZeroBit == <<"alu", "zero_bit", 0>>

\* Mutant of AluIsZero: only the low adder's sum is looked at.
AluIsZeroLowNibble(sum) == IF \E k \in 1..4 : Truthy(sum[k]) THEN Low ELSE High

\* is_zero = not any(p.state for p in the sum pins)
AluIsZero(sum) == IF \E k \in 1..8 : Truthy(sum[k]) THEN Low ELSE High

\* self._zero_bit.value = is_zero, between trans and flags_register.
AluSetZeroBit(net, sum) ==
    IF \E k \in 1..8 : sum[k] = Conflict THEN [net EXCEPT !.err = "ValueError"]
    ELSE [net EXCEPT !.val[AluZeroBit] = AluIsZero(sum)]

\* evaluate of part c of an assembly.
PartEvaluateIn(net, c) ==
    CASE c \in {"low_subtract_xor", "high_subtract_xor", "clk_nand"} ->
            NetAfter(net, GateArrayEvaluateIn(net.src, net.val, c))
      [] c \in {"low_adder", "high_adder"} ->
            NetAfter(net, AddEvaluateIn(net.src, net.val, c))
      [] c \in {"alu_trans", "register_trans", "pc_trans", "b_register_trans", "ir_trans"} ->
            NetAfter(net, TransEvaluateIn(net.src, net.val, c))
      [] c = "control_output" ->
            NetAfterOutput(net, c, OutputEvaluateIn(net.src, net.val, net.ov[c], c))
      [] c = "pc_counter" ->
            NetAfterCtr(net, c, CtrEvaluateIn(net.src, net.val, net.cnt[c], net.lc[c], c))
      [] c \in {"flags_register", "low_register", "high_register", "address_register",
                "b_low_register", "b_high_register", "ir_low_register", "ir_high_register"} ->
            NetAfterReg(net, c, RegEvaluateIn(net.src, net.val, net.st[c], net.lc[c], c))
      [] c = "ram" ->
            NetAfterRam(net, c, RamEvaluateIn(net.src, net.val, net.mem[c], c))
      [] c = "zero_bit" ->
            AluSetZeroBit(net, [k \in 1..8 |-> StateIn(net.src, net.val, AluSum[k])])

\* The evaluate calls of an assembly's evaluate from the i-th on; an
\* exception of one part leaves the later ones unevaluated.
RECURSIVE EvaluateParts(_, _, _)
EvaluateParts(net, parts, i) ==
    IF i > Len(parts) \/ net.err # "none" THEN net
    ELSE EvaluateParts(PartEvaluateIn(net, parts[i]), parts, i + 1)

\* The second half of a clock pulse: clk low, evaluate, unless the first
\* evaluate raised.
PulseLowIn(e1, clk, parts) ==
    IF e1.err # "none" THEN e1
    ELSE EvaluateParts(NetWith(e1, DriveIn(e1, clk, Low)), parts, 1)

\* A clock pulse of the test harnesses: clk high, evaluate, clk low, evaluate.
PulseIn(net, clk, parts) ==
    PulseLowIn(EvaluateParts(NetWith(net, DriveIn(net, clk, High)), parts, 1), clk, parts)

-----------------------------------------------------------------------------
(* Alu: two cascaded adders behind two XOR arrays, a transceiver onto the   *)
(* shared bus and a flags register.                                        *)

AluXors     == <<"low_subtract_xor", "high_subtract_xor">>
AluAdders   == <<"low_adder", "high_adder">>
AluChips    == {"low_subtract_xor", "high_subtract_xor", "low_adder", "high_adder",
                "alu_trans", "flags_register"}
AluWire(n)  == Pin("alu", n, 0)
AluWires    == {AluWire(n) : n \in {"vcc", "gnd", "clk", "clr", "result_out",
                                     "subtract", "flags_in"}}
AluCarryOut == Pin("alu", "carry_out", 0)
AluZeroOut  == Pin("alu", "zero_out", 0)
AluBuses    == {"a_bus", "b_bus", "bus"}

\* low_adder.a + high_adder.a and .b; the gates of the two XOR arrays.
AluAdderA == [k \in 1..8 |-> AddA(AluAdders[(k + 3) \div 4])[((k - 1) % 4) + 1]]
AluAdderB == [k \in 1..8 |-> AddB(AluAdders[(k + 3) \div 4])[((k - 1) % 4) + 1]]

AluJunctions ==
    AluWires \cup {AluCarryOut, AluZeroOut}
      \cup {BusLine(b, i) : b \in AluBuses, i \in 1..8}
      \cup GatePins("low_subtract_xor") \cup GatePins("high_subtract_xor")
      \cup AddPins("low_adder") \cup AddPins("high_adder")
      \cup TransPins("alu_trans") \cup RegPins("flags_register")

AluSourceIds ==
    {Ext(w) : w \in AluWires} \cup {AluZeroBit}
      \cup {BusVs(b, i) : b \in AluBuses, i \in 1..8}
      \cup {GateVs(AluXors[x], i) : x \in 1..2, i \in 1..4}
      \cup AddSources("low_adder") \cup AddSources("high_adder")
      \cup TransSources("alu_trans")
      \cup {RegQVs("flags_register")[i] : i \in 1..4}

\* Index k in 1..8 of a gate pin <<chip, name, i>> of the XOR arrays.
AluGateIndex(j) == (IF j[1] = "low_subtract_xor" THEN 0 ELSE 4) + j[3]

\* The conductors Alu.__init__ appends to junction j.
AluConductors(j) ==
    CASE j[1] \in AluChips /\ j[2] = "VCC" -> {AluWire("vcc")}
      [] j[1] \in AluChips /\ j[2] = "GND" -> {AluWire("gnd")}
      [] j = AddCARRY_IN("low_adder")   -> {AluWire("subtract")}
      [] j = AddCARRY_OUT("low_adder")  -> {AddCARRY_IN("high_adder")}
      [] j = AddCARRY_OUT("high_adder") -> {RegD("flags_register")[1]}
      [] j \in {RegN("flags_register"), RegM("flags_register")}   -> {AluWire("gnd")}
      [] j \in {RegG1("flags_register"), RegG2("flags_register")} -> {AluWire("flags_in")}
      [] j = RegCLK("flags_register") -> {AluWire("clk")}
      [] j = RegCLR("flags_register") -> {AluWire("clr")}
      [] j = RegQ("flags_register")[1] -> {AluCarryOut}
      [] j = RegQ("flags_register")[2] -> {AluZeroOut}
      [] j[1] \in {AluXors[1], AluXors[2]} /\ j[2] = "A" -> {BusLine("b_bus", AluGateIndex(j))}
      [] j[1] \in {AluXors[1], AluXors[2]} /\ j[2] = "B" -> {AluWire("subtract")}
      [] j[1] \in {AluXors[1], AluXors[2]} /\ j[2] = "Y" -> {AluAdderB[AluGateIndex(j)]}
      [] j[1] = "a_bus" -> {AluAdderA[j[3]]}
      [] j[1] = "alu_trans" /\ j[2] = "A" -> {AluSum[j[3]]}
      [] j[1] = "alu_trans" /\ j[2] = "B" -> {BusLine("bus", j[3])}
      [] j = DirectionPin("alu_trans") -> {AluWire("vcc")}
      [] j = EnabledPin("alu_trans")   -> {AluWire("result_out")}
      [] OTHER -> {}

\* Alu.evaluate: the parts in order, the zero bit set before the flags
\* register.
AluParts == <<"low_subtract_xor", "high_subtract_xor", "low_adder", "high_adder",
              "alu_trans", "zero_bit", "flags_register">>
AluEvaluateIn(net) == EvaluateParts(net, AluParts, 1)

\* AluTestHarness.do_clock
AluDoClockIn(net) == PulseIn(net, AluWire("clk"), AluParts)

-----------------------------------------------------------------------------
(* An Alu as the alu fixture builds it, driven as test_alu_can_add does.   *)

\* Pulses followed from a freshly built assembly; later ones are not told
\* apart.
MaxAluPulses == 2

AluOperandsA == {0, 1, 15, 255}
AluOperandsB == {0, 1, 2}

InitAlu ==
    /\ sources = [j \in AluJunctions |->
                    IF j \in AluWires THEN {Ext(j)}
                    ELSE IF j = RegD("flags_register")[2] THEN {AluZeroBit}
                    ELSE {}]
    /\ conductors = [j \in AluJunctions |-> AluConductors(j)]
    /\ value = [s \in AluSourceIds |->
                    IF s \in {Ext(AluWire("vcc")), Ext(AluWire("result_out")),
                              Ext(AluWire("flags_in"))}
                    THEN High ELSE Low]
    /\ reg_state = [c \in {"flags_register"} |-> [i \in 1..4 |-> Low]]
    /\ last_clock = [c \in {"flags_register"} |-> Low]
    /\ count = <<>> /\ clk_sampled = <<>>
    /\ memory = <<>> /\ written = <<>>
    /\ pulses = 0 /\ loaded = -1 /\ output_value = <<>>
    /\ op = <<"init", "alu">>
    /\ err = "none"

\* The body of test_alu_can_add up to do_clock: both operands pulled onto
\* their buses, flags_in driven, result_out low, subtract driven, one pulse.
AluTest(a, b, s, fi) ==
    \E p \in {DriveIn(DriveIn(DriveIn(
                 PullToIn(PullToIn([src |-> sources, val |-> value],
                                   "a_bus", int_to_list(a, 8), 1, 8),
                          "b_bus", int_to_list(b, 8), 1, 8),
                 AluWire("flags_in"), fi), AluWire("result_out"), Low),
                 AluWire("subtract"), s)} :
    \E r \in {AluDoClockIn(AssemblyNet(p))} :
        /\ sources' = r.src
        /\ value' = r.val
        /\ reg_state' = r.st
        /\ last_clock' = r.lc
        /\ pulses' = IF pulses < MaxAluPulses THEN pulses + 1 ELSE pulses
        /\ op' = <<"do_clock", "alu">>
        /\ err' = r.err
        /\ UNCHANGED <<conductors, output_value, count, ramvars, clk_sampled, loaded>>

NextAlu ==
    \E a \in AluOperandsA, b \in AluOperandsB, s \in Bools, fi \in Bools :
        AluTest(a, b, s, fi)

SpecAlu == InitAlu /\ [][NextAlu]_vars

\* The operands on the buses and the 9-bit total the adders should form.
AluIn(b) == list_to_int(BusValue(b, 8))
AluSubtract == State(AluWire("subtract")) = High
AluTotal ==
    AluIn("a_bus") + (IF AluSubtract THEN 255 - AluIn("b_bus") ELSE AluIn("b_bus"))
        + (IF AluSubtract THEN 1 ELSE 0)
AluCarry == IF AluTotal >= 256 THEN High ELSE Low
AluZero  == IF AluTotal % 256 = 0 THEN High ELSE Low

\* C15: one pulse on a freshly built Alu with flags_in and result_out low
\* leaves (a + (b XOR (s ? 255 : 0)) + s) mod 256 on the shared bus, carry_out
\* high iff the total is >= 256 and zero_out high iff the 8-bit result is 0.
C15_FirstPulseResult ==
    (/\ op = <<"do_clock", "alu">>
     /\ pulses = 1
     /\ State(AluWire("flags_in")) = Low)
        => /\ err = "none"
           /\ BusValue("bus", 8) = int_to_list(AluTotal % 256, 8)
           /\ State(AluCarryOut) = AluCarry
           /\ State(AluZeroOut) = AluZero

\* 15 + 1 = 16 carries from the low adder into the high one.
C15_Witness ==
    /\ op = <<"do_clock", "alu">>
    /\ pulses = 1
    /\ State(AluWire("flags_in")) = Low
    /\ AluIn("a_bus") = 15 /\ AluIn("b_bus") = 1 /\ ~AluSubtract
    /\ AluIn("bus") = 16
    /\ State(AluCarryOut) = Low /\ State(AluZeroOut) = Low

\* C16: after each pulse with flags_in low, carry_out and zero_out are the
\* carry and zero of that pulse's sum; after each pulse with flags_in high
\* they keep their previous values.
C16_FlagsFollowEachPulse ==
    [][op' = <<"do_clock", "alu">> =>
          IF State(AluWire("flags_in"))' = Low
          THEN /\ State(AluCarryOut)' = AluCarry'
               /\ State(AluZeroOut)' = AluZero'
          ELSE /\ State(AluCarryOut)' = State(AluCarryOut)
               /\ State(AluZeroOut)' = State(AluZeroOut)]_vars

-----------------------------------------------------------------------------
(* Register: two FourBitDRegisters behind the shared bus, a private        *)
(* register_bus on their outputs and a transceiver back onto the shared    *)
(* bus.                                                                    *)

RegisterChips   == {"low_register", "high_register", "register_trans"}
RegisterWire(n) == Pin("register", n, 0)
RegisterWires   == {RegisterWire(n) : n \in {"vcc", "gnd", "clk", "clr",
                                              "register_in", "register_out"}}
RegisterBuses   == {"bus", "register_bus"}

RegisterJunctions ==
    RegisterWires \cup {BusLine(b, i) : b \in RegisterBuses, i \in 1..8}
      \cup RegPins("low_register") \cup RegPins("high_register")
      \cup TransPins("register_trans")

RegisterSourceIds ==
    {Ext(w) : w \in RegisterWires}
      \cup {BusVs(b, i) : b \in RegisterBuses, i \in 1..8}
      \cup {RegQVs(c)[i] : c \in {"low_register", "high_register"}, i \in 1..4}
      \cup TransSources("register_trans")

\* Mutant of RegisterEnableLine: G1 and G2 are tied to ground.
RegisterEnableGrounded == RegisterWire("gnd")

\* The line _connect_control_lines_to_register puts on G1 and G2.
RegisterEnableLine == RegisterWire("register_in")

\* The conductors Register.__init__ appends to junction j; bus.conductors[n]
\* is line n + 1.
RegisterConductors(j) ==
    LET regs == {"low_register", "high_register"}
        top(c) == IF c = "low_register" THEN 5 ELSE 9
    IN  CASE j[1] \in RegisterChips /\ j[2] = "VCC" -> {RegisterWire("vcc")}
          [] j[1] \in RegisterChips /\ j[2] = "GND" -> {RegisterWire("gnd")}
          [] j[1] \in regs /\ j[2] = "CLR" -> {RegisterWire("clr")}
          [] j[1] \in regs /\ j[2] = "CLK" -> {RegisterWire("clk")}
          [] j[1] \in regs /\ j[2] \in {"N", "M"} -> {RegisterWire("gnd")}
          [] j[1] \in regs /\ j[2] \in {"G1", "G2"} -> {RegisterEnableLine}
          [] j[1] \in regs /\ j[2] = "D" -> {BusLine("bus", top(j[1]) - j[3])}
          [] j[1] = "low_register" /\ j[2] = "Q" ->
                {TrA("register_trans", 4 + j[3]), BusLine("register_bus", 5 - j[3])}
          [] j[1] = "high_register" /\ j[2] = "Q" ->
                {TrA("register_trans", j[3]), BusLine("register_bus", 9 - j[3])}
          [] j[1] = "bus" -> {TrB("register_trans", 9 - j[3])}
          [] j = DirectionPin("register_trans") -> {RegisterWire("vcc")}
          [] j = EnabledPin("register_trans")   -> {RegisterWire("register_out")}
          [] OTHER -> {}

\* Register.evaluate
RegisterParts == <<"low_register", "high_register", "register_trans">>
RegisterEvaluateIn(net) == EvaluateParts(net, RegisterParts, 1)

\* clock(register)
RegisterClockIn(net) == PulseIn(net, RegisterWire("clk"), RegisterParts)

-----------------------------------------------------------------------------
(* A Register as the empty_register fixture builds it, driven by the steps *)
(* of test_clock_in_data and test_cannot_clock_in_with_address_in_disabled.*)

\* Bytes forced on the shared bus; -1 stands for the released bus.
RegisterBytes == {129, 60}
Unforced == -1

RegisterPull(v) == IF v = Unforced THEN [i \in 1..8 |-> Floating] ELSE int_to_list(v, 8)

InitRegister ==
    /\ sources = [j \in RegisterJunctions |-> IF j \in RegisterWires THEN {Ext(j)} ELSE {}]
    /\ conductors = [j \in RegisterJunctions |-> RegisterConductors(j)]
    /\ value = [s \in RegisterSourceIds |->
                    IF s \in {Ext(RegisterWire("vcc")), Ext(RegisterWire("register_in")),
                              Ext(RegisterWire("register_out"))}
                    THEN High ELSE Low]
    /\ reg_state = [c \in {"low_register", "high_register"} |-> [i \in 1..4 |-> Low]]
    /\ last_clock = [c \in {"low_register", "high_register"} |-> Low]
    /\ count = <<>> /\ clk_sampled = <<>>
    /\ memory = <<>> /\ written = <<>>
    /\ pulses = -1 /\ loaded = -1 /\ output_value = <<>>
    /\ op = <<"init", "register">>
    /\ err = "none"

\* The name of a test step: a load forces a byte with register_in low and
\* register_out high, an output releases the bus with register_in high and
\* register_out low; every other pulse is a plain clock.
RegisterStepName(v, rin, rout) ==
    IF v # Unforced /\ rin = Low /\ rout = High THEN "load"
    ELSE IF v = Unforced /\ rin = High /\ rout = Low THEN "output"
    ELSE "clock"

\* The value of loaded once a pulse with register_in low was taken that was
\* not a load step: the register is no longer followed.
NotByLoad == -2

\* One step of the tests: the two control lines driven, the bus pulled, one
\* clock pulse.
RegisterStep(v, rin, rout) ==
    \E p \in {PullToIn(DriveIn(DriveIn([src |-> sources, val |-> value],
                                       RegisterWire("register_in"), rin),
                               RegisterWire("register_out"), rout),
                       "bus", RegisterPull(v), 1, 8)} :
    \E r \in {RegisterClockIn(AssemblyNet(p))} :
        /\ sources' = r.src
        /\ value' = r.val
        /\ reg_state' = r.st
        /\ last_clock' = r.lc
        /\ loaded' = IF loaded = NotByLoad THEN NotByLoad
                     ELSE IF RegisterStepName(v, rin, rout) = "load" THEN v
                     ELSE IF rin = High THEN loaded
                     ELSE NotByLoad
        /\ op' = <<RegisterStepName(v, rin, rout), "register">>
        /\ err' = r.err
        /\ UNCHANGED <<conductors, output_value, count, ramvars, clk_sampled, pulses>>

NextRegister ==
    \E v \in RegisterBytes \cup {Unforced}, rin \in Bools, rout \in Bools :
        RegisterStep(v, rin, rout)

SpecRegister == InitRegister /\ [][NextRegister]_vars

\* The byte read on a bus, a line that is not high counting as 0.
RegisterByteOn(b) == [i \in 1..8 |-> IF State(BusLine(b, i)) = High THEN High ELSE Low]

\* C17: after loads, an output step makes the shared bus and register_bus
\* read the byte loaded last, bit for bit.
C17_OutputReadsLastLoad ==
    (op = <<"output", "register">> /\ loaded >= 0)
        => /\ err = "none"
           /\ BusValue("bus", 8) = int_to_list(loaded, 8)
           /\ BusValue("register_bus", 8) = int_to_list(loaded, 8)

\* C18: a pulse with register_in high leaves the byte on register_bus as it
\* was, whatever is forced on the shared bus, and an output step then shows
\* the same byte on the shared bus.
C18_DisabledPulseKeepsByte ==
    [][State(RegisterWire("register_in"))' = High =>
          /\ err' = "none"
          /\ BusValue("register_bus", 8)' = BusValue("register_bus", 8)
          /\ op' = <<"output", "register">>
                => RegisterByteOn("bus")' = RegisterByteOn("register_bus")]_vars

\* A loaded 129 has survived a pulse taken with register_in high while 60
\* was forced on the shared bus.
C18_Witness ==
    /\ op = <<"clock", "register">>
    /\ err = "none"
    /\ loaded = 129
    /\ State(RegisterWire("register_in")) = High
    /\ State(RegisterWire("register_out")) = High
    /\ BusValue("bus", 8) = int_to_list(60, 8)
    /\ BusValue("register_bus", 8) = int_to_list(129, 8)

-----------------------------------------------------------------------------
(* RamModule: a Ram addressed by a four-bit MemoryRegister, its write      *)
(* enable driven by a NAND of the clock and memory_in.                     *)

RamModuleChips   == {"clk_nand", "address_register", "ram"}
RamModuleWire(n) == Pin("ram_module", n, 0)
RamModuleWires   == {RamModuleWire(n) : n \in {"vcc", "gnd", "clk", "clr", "address_in",
                                                "memory_in", "memory_out"}}

RamModuleJunctions ==
    RamModuleWires \cup {BusLine("bus", i) : i \in 1..8}
      \cup {BusLine("register_bus", i) : i \in 1..4}
      \cup GatePins("clk_nand") \cup RegPins("address_register") \cup RamPins("ram")

RamModuleSourceIds ==
    {Ext(w) : w \in RamModuleWires} \cup {BusVs("bus", i) : i \in 1..8}
      \cup {GateVs("clk_nand", i) : i \in 1..4}
      \cup {RegQVs("address_register")[i] : i \in 1..4}
      \cup {RamIOVs("ram")[i] : i \in 1..8}

\* Mutant of RamModuleNandB: the second NAND input is tied to vcc.
RamModuleNandBTiedHigh == RamModuleWire("vcc")

\* The line RamModule.__init__ puts on clk_nand.B1.
RamModuleNandB == RamModuleWire("memory_in")

\* The conductors MemoryRegister.__init__ and RamModule.__init__ append to
\* junction j; bus.conductors[n] is line n + 1 and pin An is <<"ram", "A", n>>.
RamModuleConductors(j) ==
    CASE j[1] \in RamModuleChips /\ j[2] = "VCC" -> {RamModuleWire("vcc")}
      [] j[1] \in RamModuleChips /\ j[2] = "GND" -> {RamModuleWire("gnd")}
      [] j = RegCLR("address_register") -> {RamModuleWire("clr")}
      [] j = RegCLK("address_register") -> {RamModuleWire("clk")}
      [] j \in {RegN("address_register"), RegM("address_register")} -> {RamModuleWire("gnd")}
      [] j \in {RegG1("address_register"), RegG2("address_register")} ->
            {RamModuleWire("address_in")}
      [] j[1] = "address_register" /\ j[2] = "D" -> {BusLine("bus", 5 - j[3])}
      [] j[1] = "address_register" /\ j[2] = "Q" -> {BusLine("register_bus", 5 - j[3])}
      [] j = RamCHIP_SELECT("ram")   -> {RamModuleWire("gnd")}
      [] j = RamOUTPUT_ENABLE("ram") -> {RamModuleWire("memory_out")}
      [] j[1] = "ram" /\ j[2] = "A" /\ j[3] <= 3 -> {BusLine("register_bus", j[3] + 1)}
      [] j[1] = "ram" /\ j[2] = "IO" -> {BusLine("bus", j[3] + 1)}
      [] j = GateA("clk_nand", 1) -> {RamModuleWire("clk")}
      [] j = GateB("clk_nand", 1) -> {RamModuleNandB}
      [] j = GateY("clk_nand", 1) -> {RamWRITE_ENABLE("ram")}
      [] OTHER -> {}

\* RamModule.evaluate
RamModuleParts == <<"clk_nand", "address_register", "ram">>
RamModuleEvaluateIn(net) == EvaluateParts(net, RamModuleParts, 1)

\* clock_ram(ram)
RamModuleClockIn(net) == PulseIn(net, RamModuleWire("clk"), RamModuleParts)

\* The module as the ram_harness fixture builds it.
InitRamModule ==
    /\ sources = [j \in RamModuleJunctions |-> IF j \in RamModuleWires THEN {Ext(j)} ELSE {}]
    /\ conductors = [j \in RamModuleJunctions |-> RamModuleConductors(j)]
    /\ value = [s \in RamModuleSourceIds |->
                    IF s \in {Ext(RamModuleWire("vcc")), Ext(RamModuleWire("address_in")),
                              Ext(RamModuleWire("memory_out"))}
                    THEN High ELSE Low]
    /\ reg_state = [c \in {"address_register"} |-> [i \in 1..4 |-> Low]]
    /\ last_clock = [c \in {"address_register"} |-> Low]
    /\ count = <<>> /\ clk_sampled = <<>>
    /\ memory = [c \in {"ram"} |-> [a \in 0..15 |-> 0]]
    /\ written = [c \in {"ram"} |-> [a \in 0..15 |-> -1]]
    /\ pulses = -1 /\ loaded = -1 /\ output_value = <<>>
    /\ op = <<"init", "ram_module">>
    /\ err = "none"

-----------------------------------------------------------------------------
(* The module driven by the steps of test_read_write_ram.                  *)

\* Addresses loaded, the byte written through the bus and the byte preloaded.
RamModuleAddresses == {3, 10}
RamModuleBytes     == {20}
RamModulePreloads  == {7}

\* The three control lines driven, then the bus pulled to the n levels v,
\* then one clock pulse.
RamModuleStepIn(ain, min, mout, v, n) ==
    LET c == DriveIn(DriveIn(DriveIn([src |-> sources, val |-> value],
                                     RamModuleWire("address_in"), ain),
                             RamModuleWire("memory_in"), min),
                     RamModuleWire("memory_out"), mout)
        p == PullToIn(c, "bus", v, 1, n)
    IN  RamModuleClockIn(AssemblyNet(p))

\* Address input enabled, the address on the low four bus lines, one pulse.
RamModuleLoadAddress(a) ==
    \E r \in {RamModuleStepIn(Low, Low, High, int_to_list(a, 4), 4)} :
        /\ sources' = r.src
        /\ value' = r.val
        /\ reg_state' = r.st
        /\ last_clock' = r.lc
        /\ memory' = r.mem
        /\ loaded' = a
        /\ op' = <<"load_address", "ram_module">>
        /\ err' = r.err
        /\ UNCHANGED <<conductors, output_value, count, written, clk_sampled, pulses>>

\* Address input disabled, the data on the bus, ram input enabled, one pulse.
RamModuleWrite(d) ==
    \E r \in {RamModuleStepIn(High, High, High, int_to_list(d, 8), 8)} :
        /\ loaded >= 0
        /\ sources' = r.src
        /\ value' = r.val
        /\ reg_state' = r.st
        /\ last_clock' = r.lc
        /\ memory' = r.mem
        /\ written' = [written EXCEPT !["ram"][loaded] = d]
        /\ op' = <<"write", "ram_module">>
        /\ err' = r.err
        /\ UNCHANGED <<conductors, output_value, count, clk_sampled, pulses, loaded>>

\* Ram input disabled, the bus released, ram output enabled, one pulse.
RamModuleRead ==
    \E r \in {RamModuleStepIn(High, Low, Low, [i \in 1..8 |-> Floating], 8)} :
        /\ sources' = r.src
        /\ value' = r.val
        /\ reg_state' = r.st
        /\ last_clock' = r.lc
        /\ memory' = r.mem
        /\ op' = <<"read", "ram_module">>
        /\ err' = r.err
        /\ UNCHANGED <<conductors, output_value, count, written, clk_sampled, pulses, loaded>>

\* RamModule.fiddle(address, data)
RamModuleFiddle(address, data) ==
    /\ RamFiddle("ram", address, data)

NextRamModule ==
    \/ \E a \in RamModuleAddresses : RamModuleLoadAddress(a)
    \/ \E d \in RamModuleBytes : RamModuleWrite(d)
    \/ RamModuleRead
    \/ \E a \in RamModuleAddresses, d \in RamModulePreloads : RamModuleFiddle(a, d)

SpecRamModule == InitRamModule /\ [][NextRamModule]_vars

\* C19: a read pulse puts on the bus the byte written or preloaded last at
\* the address loaded last.
C19_ReadsLastWriteAtLoadedAddress ==
    (/\ op = <<"read", "ram_module">>
     /\ loaded >= 0
     /\ written["ram"][loaded] >= 0)
        => /\ err = "none"
           /\ BusValue("bus", 8) = int_to_list(written["ram"][loaded], 8)

-----------------------------------------------------------------------------
(* The module driven line by line: every control line, the bus and the     *)
(* preload changed at will between single evaluates.                       *)

\* The bytes forced on the bus and the word preloaded.
RamLineBytes   == {20}
RamLinePreload == <<4, 7>>

RamLineDrive(n, l) ==
    \E r \in {DriveIn([src |-> sources, val |-> value], RamModuleWire(n), l)} :
        /\ State(RamModuleWire(n)) # l
        /\ sources' = r.src
        /\ value' = r.val
        /\ op' = <<"drive", n>>
        /\ err' = "none"
        /\ UNCHANGED <<conductors, chipvars>>

RamLinePull(v) ==
    \E r \in {PullToIn([src |-> sources, val |-> value], "bus", RegisterPull(v), 1, 8)} :
        /\ sources' = r.src
        /\ value' = r.val
        /\ op' = <<"pull_to", "bus">>
        /\ err' = "none"
        /\ UNCHANGED <<conductors, chipvars>>

\* RamModule.evaluate
RamModuleEvaluate ==
    \E r \in {RamModuleEvaluateIn(AssemblyNet([src |-> sources, val |-> value]))} :
        /\ sources' = r.src
        /\ value' = r.val
        /\ reg_state' = r.st
        /\ last_clock' = r.lc
        /\ memory' = r.mem
        /\ op' = <<"evaluate", "ram_module">>
        /\ err' = r.err
        /\ UNCHANGED <<conductors, output_value, count, written, clk_sampled, pulses, loaded>>

NextRamLines ==
    \/ \E n \in {"clk", "memory_in"}, l \in Levels : RamLineDrive(n, l)
    \/ \E n \in {"address_in", "memory_out"}, l \in Bools : RamLineDrive(n, l)
    \/ \E v \in RamLineBytes \cup {Unforced} : RamLinePull(v)
    \/ RamModuleEvaluate
    \/ RamModuleFiddle(RamLinePreload[1], RamLinePreload[2])

SpecRamLines == InitRamModule /\ [][NextRamLines]_vars

\* C20: an evaluate changes the memory only if the clock line and memory_in
\* both read high at that evaluate.
C20_WriteNeedsClockAndMemoryIn ==
    [][(/\ op' = <<"evaluate", "ram_module">>
        /\ ~(State(RamModuleWire("clk")) = High /\ State(RamModuleWire("memory_in")) = High))
          => memory' = memory]_vars

\* An evaluate with the clock high, memory_in floating and 20 forced on the
\* bus has left the addressed word as it was.
C20_Witness ==
    /\ op = <<"evaluate", "ram_module">>
    /\ err = "none"
    /\ State(RamModuleWire("clk")) = High
    /\ State(RamModuleWire("memory_in")) = Floating
    /\ BusValue("bus", 8) = int_to_list(20, 8)
    /\ memory["ram"][list_to_int(BusValue("register_bus", 4))] # 20

-----------------------------------------------------------------------------
(* ProgramCounter: a BinaryCounter (pc_counter) whose outputs reach the    *)
(* shared bus through a transceiver (pc_trans).                            *)

PcChips   == {"pc_counter", "pc_trans"}
PcWire(n) == Pin("pc", n, 0)
PcWires   == {PcWire(n) : n \in {"vcc", "gnd", "clr", "clk", "counter_out",
                                  "counter_enable", "jump"}}

PcJunctions ==
    PcWires \cup {BusLine("bus", i) : i \in 1..8}
      \cup CtrPins("pc_counter") \cup TransPins("pc_trans")

PcSourceIds ==
    {Ext(w) : w \in PcWires} \cup {BusVs("bus", i) : i \in 1..8}
      \cup {CtrQVs("pc_counter")[i] : i \in 1..4} \cup {CtrCarryVs("pc_counter")}
      \cup TransSources("pc_trans")

\* Mutant of PcBusLineOfA: A4..A7 are put on the bus lines in rising order.
PcBusLineOfAStraight(i) == i - 3

\* trans.A4 .. trans.A7 are appended bus.conductors[3] .. bus.conductors[0];
\* bus.conductors[n] is line n + 1.
PcBusLineOfA(i) == 8 - i

\* The conductors ProgramCounter.__init__ appends to junction j.
PcConductors(j) ==
    CASE j[1] \in PcChips /\ j[2] = "VCC" -> {PcWire("vcc")}
      [] j[1] \in PcChips /\ j[2] = "GND" -> {PcWire("gnd")}
      [] j[1] = "pc_counter" /\ j[2] = "D" -> {BusLine("bus", j[3])}
      [] j = CtrLOAD("pc_counter") -> {PcWire("jump")}
      [] j \in {CtrENABLE_P("pc_counter"), CtrENABLE_T("pc_counter")} -> {PcWire("counter_enable")}
      [] j = CtrCLR("pc_counter") -> {PcWire("clr")}
      [] j = CtrCLK("pc_counter") -> {PcWire("clk")}
      [] j[1] = "pc_trans" /\ j[2] = "B" /\ j[3] \in 4..7 -> {CtrQ("pc_counter")[8 - j[3]]}
      [] j = EnabledPin("pc_trans") -> {PcWire("counter_out")}
      [] j = DirectionPin("pc_trans") -> {PcWire("gnd")}
      [] j[1] = "pc_trans" /\ j[2] = "A" /\ j[3] \in 4..7 -> {BusLine("bus", PcBusLineOfA(j[3]))}
      [] OTHER -> {}

\* ProgramCounter.evaluate
PcParts == <<"pc_counter", "pc_trans">>

\* ProgramCounterTestHarness.do_clock
PcDoClockIn(net) == PulseIn(net, PcWire("clk"), PcParts)

-----------------------------------------------------------------------------
(* A ProgramCounter as the program_counter fixture builds it, driven by    *)
(* the steps of test_increment_program_counter and                         *)
(* test_jump_program_counter.                                              *)

\* Values forced on bus lines 0..3; Unforced releases the whole bus.
PcValues == {9, 5}

InitPc ==
    /\ sources = [j \in PcJunctions |->
                    IF j \in PcWires THEN {Ext(j)}
                    ELSE IF j = CtrCARRY("pc_counter") THEN {CtrCarryVs("pc_counter")}
                    ELSE {}]
    /\ conductors = [j \in PcJunctions |-> PcConductors(j)]
    /\ value = [s \in PcSourceIds |->
                    IF s \in {Ext(PcWire("gnd")), Ext(PcWire("clk"))} \/ s \notin {Ext(w) : w \in PcWires}
                    THEN Low ELSE High]
    /\ reg_state = <<>> /\ clk_sampled = <<>>
    /\ last_clock = [c \in {"pc_counter"} |-> Low]
    /\ count = [c \in {"pc_counter"} |-> 0]
    /\ memory = <<>> /\ written = <<>>
    /\ pulses = 0 /\ loaded = -1 /\ output_value = <<>>
    /\ op = <<"init", "pc", Unforced>>
    /\ err = "none"

\* bus.pull_to(int_to_list(v, 4)), or bus.pull_to([None] * 8).
PcPullIn(net, v) ==
    IF v = Unforced THEN PullToIn(net, "bus", [i \in 1..8 |-> Floating], 1, 8)
    ELSE PullToIn(net, "bus", int_to_list(v, 4), 1, 4)

\* A counting step has jump and counter_enable high; a jump step has jump
\* low and a value forced on the bus.  clr stays high as the fixture sets it.
PcStepName(v, jump, en) ==
    IF jump = High /\ en = High THEN "count"
    ELSE IF jump = Low /\ v # Unforced THEN "jump"
    ELSE "clock"

\* One step of the tests: the control lines driven, the bus pulled, one
\* clock pulse.  pulses follows the pulses taken since the counter was fresh
\* for as long as every step was a counting step.
PcStep(v, jump, en, out) ==
    /\ pulses < MaxPulses
    /\ \E p \in {PcPullIn(DriveIn(DriveIn(DriveIn([src |-> sources, val |-> value],
                          PcWire("jump"), jump),
                          PcWire("counter_enable"), en), PcWire("counter_out"), out), v)} :
       \E r \in {PcDoClockIn(AssemblyNet(p))} :
          /\ sources' = r.src
          /\ value' = r.val
          /\ count' = r.cnt
          /\ last_clock' = r.lc
          /\ pulses' = IF pulses >= 0 /\ PcStepName(v, jump, en) = "count" /\ r.err = "none"
                        THEN pulses + 1 ELSE -1
          /\ op' = <<PcStepName(v, jump, en), "pc", v>>
          /\ err' = r.err
          /\ UNCHANGED <<conductors, output_value, reg_state, ramvars, clk_sampled, loaded>>

NextPc ==
    \E v \in PcValues \cup {Unforced}, jump \in Bools, en \in Bools, out \in Bools :
        PcStep(v, jump, en, out)

SpecPc == InitPc /\ [][NextPc]_vars

\* The sources of the program counter's chips attached to the bus lines.
PcDriversOnBus ==
    UNION {sources[BusLine("bus", i)] : i \in 1..8}
        \cap (TransSources("pc_trans") \cup {CtrQVs("pc_counter")[i] : i \in 1..4})

-----------------------------------------------------------------------------
(* An Output unit on lines and a bus that a test drives                    *)

OutputLines == {OutputLine("output", n) : n \in {"clk", "clr", "output_enable"}}

\* The lists forced on the bus: two bytes, the second also with its lowest
\* line released, and every line released.
OutputBytes == {5, 130}
OutputPulls ==
    {int_to_list(b, 8) : b \in OutputBytes}
        \cup {[i \in 1..8 |-> IF i = 1 THEN Floating ELSE int_to_list(130, 8)[i]]}
        \cup {[i \in 1..8 |-> Floating]}

InitOutput ==
    /\ sources = [j \in OutputLines \cup {BusLine("bus", i) : i \in 1..8} |-> {}]
    /\ conductors = [j \in OutputLines \cup {BusLine("bus", i) : i \in 1..8} |-> {}]
    /\ value = [s \in {Ext(j) : j \in OutputLines} \cup {BusVs("bus", i) : i \in 1..8} |-> Low]
    /\ reg_state = <<>> /\ last_clock = <<>> /\ count = <<>>
    /\ clk_sampled = [c \in {"output"} |-> Low]
    /\ memory = <<>> /\ written = <<>>
    /\ pulses = -1 /\ loaded = -1
    /\ output_value = [c \in {"output"} |-> 0]
    /\ op = <<"init", "output">>
    /\ err = "none"

\* A test drives clk, clr or output_enable, or leaves it unconnected.
OutputDrive(p, l) ==
    \E r \in {DriveIn([src |-> sources, val |-> value], p, l)} :
        /\ State(p) # l
        /\ sources' = r.src
        /\ value' = r.val
        /\ op' = <<"drive", "output">>
        /\ err' = "none"
        /\ UNCHANGED <<conductors, chipvars>>

\* bus.pull_to(v)
OutputPullTo(v) ==
    \E r \in {PullToIn([src |-> sources, val |-> value], "bus", v, 1, 8)} :
        /\ BusValue("bus", 8) # v
        /\ sources' = r.src
        /\ value' = r.val
        /\ op' = <<"pull_to", "output">>
        /\ err' = "none"
        /\ UNCHANGED <<conductors, chipvars>>

\* output.evaluate(); clk_sampled keeps the clock level this evaluate saw.
OutputEvaluate(c) ==
    \E r \in {OutputEvaluateIn(sources, value, output_value[c], c)} :
        /\ output_value' = [output_value EXCEPT ![c] = r.ov]
        /\ clk_sampled' = [clk_sampled EXCEPT ![c] = State(OutputLine(c, "clk"))]
        /\ op' = <<"evaluate", c>>
        /\ err' = r.err
        /\ UNCHANGED <<netvars, reg_state, last_clock, count, memory, written, pulses, loaded>>

NextOutput ==
    \/ \E p \in OutputLines, l \in Levels : OutputDrive(p, l)
    \/ \E v \in OutputPulls : OutputPullTo(v)
    \/ OutputEvaluate("output")

SpecOutput == InitOutput /\ [][NextOutput]_vars

\* C24: an evaluate changes the Output value only when clr is high (the
\* value becomes 0) or when the enable line is high and the clock is high
\* after having been low at the evaluate before (the value becomes the
\* unsigned integer on the bus); evaluates repeated while the clock stays
\* high do not latch again.
C24_LatchOnlyOnRisingEdge ==
    [][ (op' = <<"evaluate", "output">> /\ output_value' # output_value)
          => \/ State(OutputLine("output", "clr")) = High /\ output_value'["output"] = 0
             \/ /\ State(OutputLine("output", "output_enable")) = High
                /\ State(OutputLine("output", "clk")) = High
                /\ clk_sampled["output"] # High
                /\ output_value'["output"] = list_to_int(BusValue("bus", 8)) ]_vars

\* The value an Output latch would take with the bus lines that float now
\* driven low instead.
OutputValueWithFloatingLow ==
    LET v == [i \in 1..8 |-> IF State(BusLine("bus", i)) = Floating THEN Low
                                                                    ELSE State(BusLine("bus", i))]
        net == PullToIn([src |-> sources, val |-> value], "bus", v, 1, 8)
    IN  OutputEvaluateIn(net.src, net.val, output_value["output"], "output").ov

\* C27: an operation that turns pin levels into a number never treats a
\* floating pin as 0: an Output latch performed while a bus line floats does
\* not store the value it would store with that line driven low.
C27_FloatingNotReadAsZero ==
    (/\ op = <<"evaluate", "output">> /\ err = "none"
     /\ State(OutputLine("output", "clr")) # High
     /\ State(OutputLine("output", "clk")) = High
     /\ State(OutputLine("output", "output_enable")) = High
     /\ \E i \in 1..8 : State(BusLine("bus", i)) = Floating)
        => output_value["output"] # OutputValueWithFloatingLow

-----------------------------------------------------------------------------
(* Control: every assembly on one shared bus and one set of lines.         *)

ControlLines ==
    {"vcc", "gnd", "clk", "clr", "not_clk", "not_clr", "a_in", "a_out", "b_in", "b_out",
     "instruction_in", "instruction_out", "address_in", "memory_in", "memory_out",
     "result_out", "subtract", "flags_in", "carry_out", "zero_out", "output_enable",
     "counter_out", "counter_enable", "jump"}
ControlWires == {ControlWire(n) : n \in ControlLines}

\* The assemblies Control.__init__ builds from the classes modelled above.
ControlInstances == {"register_a", "register_b", "ram", "alu", "pc"}

\* The line of the Control handed to assembly inst for its constructor
\* argument n.
ControlLineOf(inst, n) ==
    CASE inst = "register_a" /\ n = "register_in"  -> "a_in"
      [] inst = "register_a" /\ n = "register_out" -> "a_out"
      [] inst = "register_b" /\ n = "register_in"  -> "b_in"
      [] inst = "register_b" /\ n = "register_out" -> "b_out"
      [] inst = "pc" /\ n = "clr" -> "not_clr"
      [] OTHER -> n

\* The bus of the Control that bus b of assembly inst is: the Alu is handed
\* the register_bus of register_a and of register_b.
ControlBusOf(inst, b) ==
    CASE inst = "register_a" /\ b = "register_bus" -> "a_bus"
      [] inst = "register_b" /\ b = "register_bus" -> "b_bus"
      [] inst = "ram" /\ b = "register_bus" -> "address_bus"
      [] OTHER -> b

\* The chips of register_b are told apart from those of register_a.
ControlChipOf(inst, c) == IF inst = "register_b" THEN "b_" \o c ELSE c

\* The junction of the Control that junction j of assembly inst is.
ControlJunctionOf(inst, j) ==
    IF j[2] = "line" THEN BusLine(ControlBusOf(inst, j[1]), j[3])
    ELSE IF j[1] \in {"register", "ram_module", "alu", "pc"}
         THEN ControlWire(ControlLineOf(inst, j[2]))
    ELSE <<ControlChipOf(inst, j[1]), j[2], j[3]>>

InstanceJunctions(inst) ==
    CASE inst \in {"register_a", "register_b"} -> RegisterJunctions
      [] inst = "ram" -> RamModuleJunctions
      [] inst = "alu" -> AluJunctions
      [] inst = "pc"  -> PcJunctions

InstanceConductors(inst, j) ==
    CASE inst \in {"register_a", "register_b"} -> RegisterConductors(j)
      [] inst = "ram" -> RamModuleConductors(j)
      [] inst = "alu" -> AluConductors(j)
      [] inst = "pc"  -> PcConductors(j)

\* InstructionRegister: the chips, its register_bus and the instruction bus.
IrChips == {"ir_low_register", "ir_high_register", "ir_trans"}
IrJunctions ==
    RegPins("ir_low_register") \cup RegPins("ir_high_register") \cup TransPins("ir_trans")
      \cup {BusLine("ir_register_bus", i) : i \in 1..8}
      \cup {BusLine("instruction_bus", i) : i \in 1..4}

\* The conductors InstructionRegister.__init__ appends to junction j.
IrConductors(j) ==
    LET regs == {"ir_low_register", "ir_high_register"}
    IN  CASE j[1] \in IrChips /\ j[2] = "VCC" -> {ControlWire("vcc")}
          [] j[1] \in IrChips /\ j[2] = "GND" -> {ControlWire("gnd")}
          [] j[1] \in regs /\ j[2] = "CLR" -> {ControlWire("clr")}
          [] j[1] \in regs /\ j[2] = "CLK" -> {ControlWire("clk")}
          [] j[1] \in regs /\ j[2] \in {"N", "M"} -> {ControlWire("gnd")}
          [] j[1] \in regs /\ j[2] \in {"G1", "G2"} -> {ControlWire("instruction_in")}
          [] j[1] = "ir_low_register" /\ j[2] = "D"  -> {BusLine("bus", 5 - j[3])}
          [] j[1] = "ir_high_register" /\ j[2] = "D" -> {BusLine("bus", 9 - j[3])}
          [] j[1] = "ir_low_register" /\ j[2] = "Q"  -> {TrA("ir_trans", 4 + j[3])}
          [] j[1] = "ir_high_register" /\ j[2] = "Q" -> {BusLine("ir_register_bus", 5 - j[3])}
          [] j[1] = "bus" -> {TrB("ir_trans", 9 - j[3])}
          [] j[1] = "instruction_bus" -> {RegQ("ir_high_register")[j[3]]}
          [] j = DirectionPin("ir_trans") -> {ControlWire("vcc")}
          [] j = EnabledPin("ir_trans")   -> {ControlWire("instruction_out")}
          [] OTHER -> {}

ControlPairs == UNION {{<<inst, j>> : j \in InstanceJunctions(inst)} : inst \in ControlInstances}

ControlJunctions ==
    ControlWires \cup IrJunctions \cup {ControlJunctionOf(q[1], q[2]) : q \in ControlPairs}

\* <<j, k>>: k was appended to j.conductors by one of the five assemblies.
ControlEdges ==
    UNION {{<<ControlJunctionOf(q[1], q[2]), ControlJunctionOf(q[1], k)>>
              : k \in InstanceConductors(q[1], q[2])} : q \in ControlPairs}

ControlConductors(j) == {e[2] : e \in {x \in ControlEdges : x[1] = j}} \cup IrConductors(j)

ControlRegisters ==
    {"low_register", "high_register", "b_low_register", "b_high_register",
     "ir_low_register", "ir_high_register", "address_register", "flags_register"}

ControlSourceIds ==
    {Ext(w) : w \in ControlWires} \cup {AluZeroBit, CtrCarryVs("pc_counter")}
      \cup {RegQVs(c)[i] : c \in ControlRegisters, i \in 1..4}
      \cup {CtrQVs("pc_counter")[i] : i \in 1..4}
      \cup UNION {TransSources(c) : c \in {"register_trans", "b_register_trans", "ir_trans",
                                            "alu_trans", "pc_trans"}}
      \cup {GateVs(c, i) : c \in {"clk_nand", "low_subtract_xor", "high_subtract_xor"}, i \in 1..4}
      \cup AddSources("low_adder") \cup AddSources("high_adder")
      \cup {RamIOVs("ram")[i] : i \in 1..8}

\* The lines disable_all leaves high; vcc, carry_out and zero_out keep the
\* level they were built with.
ControlHighLines ==
    {"vcc", "carry_out", "zero_out", "not_clk", "not_clr", "address_in", "memory_out",
     "instruction_out", "instruction_in", "counter_out", "jump", "result_out", "flags_in",
     "b_in", "b_out", "a_in", "a_out"}

\* Control(): the state after construction, ram.fiddle having put the words
\* mem (address -> byte) into the RAM.
ControlBuiltWith(mem) ==
    /\ sources = [j \in ControlJunctions |->
                    IF j \in ControlWires THEN {Ext(j)}
                    ELSE IF j = CtrCARRY("pc_counter") THEN {CtrCarryVs("pc_counter")}
                    ELSE IF j = RegD("flags_register")[2] THEN {AluZeroBit}
                    ELSE {}]
    /\ conductors = [j \in ControlJunctions |-> ControlConductors(j)]
    /\ value = [s \in ControlSourceIds |->
                    IF s \in {Ext(ControlWire(n)) : n \in ControlHighLines} THEN High ELSE Low]
    /\ reg_state = [c \in ControlRegisters |-> [i \in 1..4 |-> Low]]
    /\ last_clock = [c \in ControlRegisters \cup {"pc_counter"} |-> Low]
    /\ count = [c \in {"pc_counter"} |-> 0]
    /\ memory = [c \in {"ram"} |-> mem]
    /\ written = <<>> /\ clk_sampled = <<>>
    /\ output_value = [c \in {"control_output"} |-> 0]
    /\ pulses = 0 /\ loaded = -1
    /\ err = "none"

\* line.on() / line.off() for the lines names[i..], in order.
RECURSIVE ControlSetAll(_, _, _, _)
ControlSetAll(net, names, l, i) ==
    IF i > Len(names) THEN net
    ELSE ControlSetAll(NetWith(net, DriveIn(net, ControlWire(names[i]), l)), names, l, i + 1)

\* The assemblies the two halves of do_clock evaluate, in order: the
\* RamModule comes second while the clock is high and fifth while it is low.
ControlOrderHigh ==
    <<"pc", "ram", "instruction_register", "register_a", "register_b", "alu", "output">>
ControlOrderLow ==
    <<"pc", "instruction_register", "register_a", "register_b", "ram", "alu", "output">>

\* The chips the evaluate of an assembly of the Control evaluates, in order.
IrParts == <<"ir_low_register", "ir_high_register", "ir_trans">>
RegisterBParts == <<"b_low_register", "b_high_register", "b_register_trans">>
ControlPartsOf(name) ==
    CASE name = "pc" -> PcParts
      [] name = "ram" -> RamModuleParts
      [] name = "instruction_register" -> IrParts
      [] name = "register_a" -> RegisterParts
      [] name = "register_b" -> RegisterBParts
      [] name = "alu" -> AluParts
      [] name = "output" -> <<"control_output">>

\* What a call of the Control is seen to do, kept in the field log of the
\* net: the lines that read high when do_clock is entered, every change of
\* clk, and every evaluate with the chips whose sources sit on a line of the
\* shared bus after it and the lines that carry sources of several chips.
ControlLinesHighIn(net) ==
    {n \in ControlLines : StateIn(net.src, net.val, ControlWire(n)) = High}
BusDriversIn(net, i) == {v[1] : v \in UNION {net.src[k] : k \in Reach(BusLine("bus", i))}}
BusChipsIn(net) == UNION {BusDriversIn(net, i) : i \in 1..8}
BusContendedIn(net) == {i \in 1..8 : Cardinality(BusDriversIn(net, i)) > 1}
Logged(net, event) == [net EXCEPT !.log = Append(@, event)]
EvaluateLogged(net, name) ==
    Logged(net, <<"evaluate", name, BusChipsIn(net), BusContendedIn(net)>>)

\* The net a call of the Control starts from.
ControlNet == AssemblyNet([src |-> sources, val |-> value]) @@ [log |-> <<>>]

\* assembly.evaluate() for the assemblies of order from the i-th on.
RECURSIVE EvaluateAssemblies(_, _, _)
EvaluateAssemblies(net, order, i) ==
    IF i > Len(order) \/ net.err # "none" THEN net
    ELSE EvaluateAssemblies(
            EvaluateLogged(EvaluateParts(net, ControlPartsOf(order[i]), 1), order[i]),
            order, i + 1)

\* clk.on(); not_clk.off() and clk.off(); not_clk.on()
ControlClockIn(net, l) ==
    Logged(ControlSetAll(ControlSetAll(net, <<"clk">>, l, 1), <<"not_clk">>,
                         IF l = High THEN Low ELSE High, 1),
           <<"clk", l>>)

\* Control.do_clock; an exception in the first half skips the second.
ControlClockLowIn(e1) ==
    IF e1.err # "none" THEN e1
    ELSE EvaluateAssemblies(ControlClockIn(e1, Low), ControlOrderLow, 1)
ControlDoClockIn(net) ==
    ControlClockLowIn(
        EvaluateAssemblies(
            ControlClockIn(Logged(net, <<"do_clock", ControlLinesHighIn(net)>>), High),
            ControlOrderHigh, 1))

\* Mutant of ControlRestoreIn: the lines turned on for the pulse stay on.
ControlRestoreOffsOnly(r, offs, ons) ==
    IF r.err # "none" THEN r
    ELSE ControlSetAll(r, offs, High, 1)

\* One micro-operation: the lines offs turned off and the lines ons turned
\* on, a clock pulse, the lines turned back.  An exception raised earlier
\* or by the pulse ends the call.
ControlRestoreIn(r, offs, ons) ==
    IF r.err # "none" THEN r
    ELSE ControlSetAll(ControlSetAll(r, offs, High, 1), ons, Low, 1)
ControlMicroIn(net, offs, ons) ==
    IF net.err # "none" THEN net
    ELSE ControlRestoreIn(
            ControlDoClockIn(ControlSetAll(ControlSetAll(net, offs, Low, 1), ons, High, 1)),
            offs, ons)

\* Mutant of ControlFetchIn: counter_out stays low for the second pulse.
ControlFetchKeepsCounterOut(net) ==
    ControlMicroIn(
        ControlMicroIn(
            ControlMicroIn(net, <<"counter_out", "address_in">>, <<>>),
            <<"counter_out", "memory_out", "instruction_in">>, <<>>),
        <<>>, <<"counter_enable">>)

\* Control.fetch
ControlFetchIn(net) ==
    ControlMicroIn(
        ControlMicroIn(
            ControlMicroIn(net, <<"counter_out", "address_in">>, <<>>),
            <<"memory_out", "instruction_in">>, <<>>),
        <<>>, <<"counter_enable">>)

-----------------------------------------------------------------------------
(* A fresh Control whose control lines are switched by hand between calls  *)
(* of do_clock.                                                             *)

MaxClocks == 2
ClockLines == {"counter_out", "memory_out", "counter_enable"}
ClockBytes == {14}

InitClock ==
    /\ \E w \in ClockBytes : ControlBuiltWith([a \in 0..15 |-> IF a = 0 THEN w ELSE 0])
    /\ op = <<"init", "control">>

\* control.<line>.on() / control.<line>.off()
ControlLineSet ==
    /\ err = "none"
    /\ pulses < MaxClocks
    /\ \E n \in ClockLines, l \in Bools :
          /\ StateIn(sources, value, ControlWire(n)) # l
          /\ \E r \in {DriveIn([src |-> sources, val |-> value], ControlWire(n), l)} :
                /\ sources' = r.src
                /\ value' = r.val
          /\ op' = <<"line", n, l>>
    /\ UNCHANGED <<conductors, chipvars, err>>

\* control.do_clock(); op[3] is what the call was seen to do.
ControlDoClock ==
    /\ pulses < MaxClocks
    /\ err = "none"
    /\ \E r \in {ControlDoClockIn(ControlNet)} :
          /\ sources' = r.src
          /\ value' = r.val
          /\ reg_state' = r.st
          /\ last_clock' = r.lc
          /\ memory' = r.mem
          /\ count' = r.cnt
          /\ output_value' = r.ov
          /\ pulses' = pulses + 1
          /\ op' = <<"do_clock", "control", r.log>>
          /\ err' = r.err
          /\ UNCHANGED <<conductors, written, clk_sampled, loaded>>

NextClock == ControlLineSet \/ ControlDoClock

SpecClock == InitClock /\ [][NextClock]_vars

\* What a log shows of the clock and of the evaluates, without the bus.
LogShape(log) == [i \in 1..Len(log) |-> <<log[i][1], log[i][2]>>]
\* A pulse: clk high, the assemblies of first, clk low, the assemblies of second.
ClockShape(first, second) ==
    <<<<"clk", High>>>> \o [i \in 1..Len(first) |-> <<"evaluate", first[i]>>]
        \o <<<<"clk", Low>>>> \o [i \in 1..Len(second) |-> <<"evaluate", second[i]>>]

\* C33: a call of do_clock that returns has set clk high, evaluated pc, the
\* RAM module, the instruction register, register A, register B, the ALU and
\* the output once each in that order, set clk low, evaluated them once each
\* in that same order again, and left clk low.
C33_DoClockSameOrderTwice ==
    (op[1] = "do_clock" /\ err = "none")
        => /\ LogShape(Tail(op[3])) = ClockShape(ControlOrderHigh, ControlOrderHigh)
           /\ StateIn(sources, value, ControlWire("clk")) = Low

-----------------------------------------------------------------------------
(* A fresh Control with a preloaded RAM, fetch called again and again.     *)

\* Calls of fetch followed (the program counter wraps at the sixteenth), and
\* the bytes preloaded at addresses 0, 1, 2.
MaxFetches == 17
FetchBytes == {14, 31}

InitFetch ==
    /\ \E w \in [0..2 -> FetchBytes] :
          ControlBuiltWith([a \in 0..15 |-> IF a <= 2 THEN w[a] ELSE 0])
    /\ op = <<"init", "control">>

\* control.fetch(); pulses counts the calls and op[3] is what the call was
\* seen to do.
ControlFetch ==
    /\ pulses < MaxFetches
    /\ err = "none"
    /\ \E r \in {ControlFetchIn(ControlNet)} :
          /\ sources' = r.src
          /\ value' = r.val
          /\ reg_state' = r.st
          /\ last_clock' = r.lc
          /\ memory' = r.mem
          /\ count' = r.cnt
          /\ output_value' = r.ov
          /\ pulses' = pulses + 1
          /\ op' = <<"fetch", "control", r.log>>
          /\ err' = r.err
          /\ UNCHANGED <<conductors, written, clk_sampled, loaded>>

NextFetch == ControlFetch

SpecFetch == InitFetch /\ [][NextFetch]_vars

\* The byte the instruction register holds: bus line n is latched by D(4-n)
\* of the low register for n < 4 and by D(8-n) of the high register.
IrByte ==
    list_to_int([i \in 1..8 |-> IF i <= 4 THEN reg_state["ir_low_register"][5 - i]
                                          ELSE reg_state["ir_high_register"][9 - i]])

\* C22: from a fresh Control, the k-th call of fetch leaves the instruction
\* register holding RAM[(k-1) mod 16] and the program counter at k mod 16.
C22_FetchLoadsNextWord ==
    (op[1] = "fetch")
        => /\ err = "none"
           /\ IrByte = memory["ram"][(pulses - 1) % 16]
           /\ count["pc_counter"] = pulses % 16

\* The pulses of a logged call: the lines that read high as each began.
PulsesOf(log) == SelectSeq(log, LAMBDA e : e[1] = "do_clock")

\* C34: a fetch called in the configuration of disable_all that returns has
\* issued exactly three pulses, counter_out and address_in low during the
\* first only, memory_out and instruction_in low during the second only,
\* counter_enable high during the third only, and leaves every control line
\* as disable_all sets it, with clk low.
C34_FetchThreePulsesRestored ==
    (op[1] = "fetch" /\ err = "none")
        => /\ Len(PulsesOf(op[3])) = 3
           /\ PulsesOf(op[3])[1][2] = ControlHighLines \ {"counter_out", "address_in"}
           /\ PulsesOf(op[3])[2][2] = ControlHighLines \ {"memory_out", "instruction_in"}
           /\ PulsesOf(op[3])[3][2] = ControlHighLines \cup {"counter_enable"}
           /\ ControlLinesHighIn([src |-> sources, val |-> value]) = ControlHighLines
           /\ StateIn(sources, value, ControlWire("clk")) = Low
C34_Witness ==
    /\ op[1] = "fetch" /\ err = "none" /\ pulses = 2
    /\ Len(op[3]) = 51
    /\ "counter_enable" \in PulsesOf(op[3])[3][2]
    /\ "counter_enable" \notin ControlLinesHighIn([src |-> sources, val |-> value])

\* The evaluates of a logged call.
EvaluatesOf(log) == SelectSeq(log, LAMBDA e : e[1] = "evaluate")

\* C40: from a fresh Control with a preloaded RAM no fetch of any number of
\* consecutive fetches raises, and after every evaluate of a fetch no line
\* of the shared bus carries sources of more than one chip: the chips with
\* sources on the bus are the transceiver of the program counter or the RAM.
C40_FetchNeverConflicts ==
    /\ err = "none"
    /\ (op[1] = "fetch")
          => \A i \in DOMAIN EvaluatesOf(op[3]) :
                /\ EvaluatesOf(op[3])[i][4] = {}
                /\ EvaluatesOf(op[3])[i][3] \in {{}, {"pc_trans"}, {"ram"}}
C40_Witness ==
    /\ op[1] = "fetch" /\ err = "none" /\ pulses = MaxFetches
    /\ Len(EvaluatesOf(op[3])) = 42
    /\ \E i \in DOMAIN EvaluatesOf(op[3]) : EvaluatesOf(op[3])[i][3] = {"pc_trans"}
    /\ \E i \in DOMAIN EvaluatesOf(op[3]) : EvaluatesOf(op[3])[i][3] = {"ram"}

-----------------------------------------------------------------------------
(* The instructions of the sequencer.  Control declares the program        *)
(* LDA 14; ADD 15; OUT and test_control_runs calls control.lda(),          *)
(* control.add() and control.out(), which assembly.py does not define: the *)
(* three micro-programs are written from section 4.5 of the specification, *)
(* each a fixed sequence of pulses with the lines of its step enabled,     *)
(* ending with the fetch of the next instruction.                          *)

\* LDA: the operand of the instruction register into the address register,
\* then the addressed word into register A.
ControlLdaIn(net) ==
    ControlFetchIn(
        ControlMicroIn(
            ControlMicroIn(net, <<"instruction_out", "address_in">>, <<>>),
            <<"memory_out", "a_in">>, <<>>))

\* ADD: the operand into the address register, the addressed word into
\* register B, the sum of the Alu into register A.
ControlAddIn(net) ==
    ControlFetchIn(
        ControlMicroIn(
            ControlMicroIn(
                ControlMicroIn(net, <<"instruction_out", "address_in">>, <<>>),
                <<"memory_out", "b_in">>, <<>>),
            <<"result_out", "a_in">>, <<>>))

\* OUT: register A onto the bus and into the Output unit.
ControlOutIn(net) ==
    ControlFetchIn(ControlMicroIn(net, <<"a_out">>, <<"output_enable">>))

ControlInstructionIn(net, name) ==
    CASE name = "lda" -> ControlLdaIn(net)
      [] name = "add" -> ControlAddIn(net)
      [] name = "out" -> ControlOutIn(net)

\* Instructions run after the first fetch, and the operands preloaded at
\* addresses 14 and 15.
MaxInstructions == 3
ProgramOperands == {1, 2}

\* ram.fiddle of test_control_runs: LDA 14 = 0000 1110, ADD 15 = 0001 1111,
\* OUT = 1110 0000 at addresses 0..2.
ProgramMemory(x, y) ==
    [a \in 0..15 |-> CASE a = 0 -> 14 [] a = 1 -> 31 [] a = 2 -> 224
                        [] a = 14 -> x [] a = 15 -> y [] OTHER -> 0]

InitProgram ==
    /\ \E x, y \in ProgramOperands : ControlBuiltWith(ProgramMemory(x, y))
    /\ op = <<"init", "control", <<>>>>

ControlApply(r) ==
    /\ sources' = r.src
    /\ value' = r.val
    /\ reg_state' = r.st
    /\ last_clock' = r.lc
    /\ memory' = r.mem
    /\ count' = r.cnt
    /\ output_value' = r.ov
    /\ err' = r.err
    /\ UNCHANGED <<conductors, written, clk_sampled, loaded>>

\* The fetch of the first instruction.
ProgramFetch ==
    /\ op[1] = "init"
    /\ ControlApply(ControlFetchIn(ControlNet))
    /\ pulses' = pulses
    /\ op' = <<"fetch", "control", <<>>>>

\* control.lda() / control.add() / control.out(); op[3] lists the
\* instructions run so far and pulses counts them.
ProgramRun(name) ==
    /\ op[1] # "init"
    /\ err = "none"
    /\ pulses < MaxInstructions
    /\ ControlApply(ControlInstructionIn(ControlNet, name))
    /\ pulses' = pulses + 1
    /\ op' = <<"run", "control", Append(op[3], name)>>

NextProgram ==
    \/ ProgramFetch
    \/ \E name \in {"lda", "add", "out"} : ProgramRun(name)

SpecProgram == InitProgram /\ [][NextProgram]_vars

\* C23: with RAM[14] = 1 and RAM[15] = 2, after fetch, LDA 14, ADD 15 and
\* OUT the Output unit holds 3.
C23_ProgramOutputsSum ==
    (/\ op = <<"run", "control", <<"lda", "add", "out">>>>
     /\ memory["ram"][14] = 1
     /\ memory["ram"][15] = 2)
        => (err = "none" /\ output_value["control_output"] = 3)

====
